---- MODULE Spec2Model ----
(***************************************************************************)
(* A model of the shutdown core of stop_streams.py: the graceful-then-     *)
(* forced termination of a batch of PIDs (ProcessManager), the scored      *)
(* selection of the process to signal under a screen session, and the      *)
(* size-stability polling of a temp file (FileProcessor), the rename of    *)
(* finished temp files and their sweep to final storage, the discovery of  *)
(* screen sessions, and the whole of stop_all_streams and main.            *)
(*                                                                         *)
(* Each component has its own specification (SpecKill, SpecSelect,         *)
(* SpecStable) over its own variables; the variables of the other          *)
(* components stay at their initial value.  SpecFiles is the file stages   *)
(* of stop_all_streams, entered after a successful termination, over any   *)
(* files and directories; SpecStop is main from its first line to its      *)
(* exit, with the termination of the workers as its second stage.          *)
(* SpecConfig is get_stream_config over any pair of environment files,     *)
(* SpecScore is score_cmdline over command lines of a few words, SpecBFS    *)
(* is _collect_descendants_with_depth, one loop iteration per step, over    *)
(* any children map.  SpecKillFair, SpecBFSFair and SpecStableFair add the  *)
(* fairness of the function's own steps, for the claims of termination.     *)
(* SpecResolve is the calls of get_stream_config made by one run of        *)
(* stop_all_streams while the environment files may change, SpecStreams    *)
(* the resolution of every stream of a run.  SpecDaemon is run_daemon.py:  *)
(* main and the nested calls of signal_handler, under any delivery of      *)
(* SIGTERM and SIGINT; SpecDaemonFair adds the fairness of its own steps.  *)
(***************************************************************************)
EXTENDS Integers, Sequences, FiniteSets, TLC

VARIABLES
    \* ---- the operating system's process table, as os.kill sees it
    exists,         \* exists[p]: a process with PID p exists right now
    behaviour,      \* how the process reacts to signals
    exists0,        \* exists at the moment kill_processes_by_pid was called
    termDelivered,  \* PIDs whose process received SIGTERM
    killDelivered,  \* PIDs whose process received SIGKILL
    \* ---- kill_processes_by_pid(pids, grace_period)
    kpc,            \* position in the function
    pids,           \* the batch (a list, as in the code)
    grace_period,
    sec,            \* loop variable of the grace loop
    termSent,       \* PIDs for which os.kill(pid, SIGTERM) was called
    killSent,       \* PIDs for which os.kill(pid, SIGKILL) was called
    warned,         \* PIDs named in a logger.warning line
    running_pids,
    remaining_pids,
    final_running,
    final_result,
    \* ---- _select_target_child_pid(screen_pid)
    spc,            \* "call" before the function runs, "returned" after
    ps_lines,       \* the lines of `ps -e -o pid= -o ppid= -o args=`, parsed
    screen_pid,     \* the PID of the screen session (the root)
    depth_map,      \* the descendants with their depth, in insertion order
    candidates,     \* the candidates after the sort
    target_pid,     \* the return value: NoPid for None, SomePid(p) for a PID
    \* ---- is_file_stable(file_path, check_count, max_wait)
    fpc,            \* "call", "loop" (inside the for loop) or "returned"
    file_present,   \* os.path.exists(file_path) at the call
    check_count,
    max_wait,
    prev_size,
    same_count,
    samples,        \* the sizes os.path.getsize returned so far, in order
    stable_result,  \* the return value
    \* ---- the recording files and the configuration of the streams
    temp_output_path,   \* get_stream_config(i).temp_output_path
    final_output_path,  \* get_stream_config(i).final_output_path
    lsof_installed,     \* the lsof binary can be run
    fs,             \* the files: records [id, dir, name, cond]
    rename_count,   \* rename_count[id]: renames of the file by _process_single_file
    move_count,     \* move_count[id]: moves of the file by final_sweep_move
    \* ---- the last call of process_temp_files or final_sweep_move
    fcall,          \* [fn, stream, pass, counts]: the function, the stream of its
                    \* config, the sweep pass and the per-file counts at entry
    fs_before,      \* fs when the call started
    examined,       \* what the call found and did for each entry it handled
    fret,           \* <<the count returned>>, <<>> when the call raised
    \* ---- stop_all_streams(num_streams) and main
    opc,            \* position in stop_all_streams
    screen_status,  \* "works", "broken" or "absent": what running screen does
    screen_sessions,\* the sessions screen has now
    sessions_at_start, \* the sessions screen had when main started
    env_temp_files, \* the .env.temp{i} and .env files present in script_dir
    sessions,       \* the counts of line 763
    rtsp_pids,      \* the list of line 774
    stopped_count,
    stream_i,       \* loop variable i of the file stages
    pass_num,
    moved_count,
    total_processed,
    final_sweep_max,
    temp_files_removed,
    remaining_sessions,
    tail_done,      \* the auxiliary steps executed so far, in order
    mover_call,     \* what stop_file_mover_session did, <<>> before
    summary,        \* <<the dict returned>>, <<>> before
    exception,      \* the exception that left stop_all_streams, NONE if none
    exit_status,    \* <<the status main passed to sys.exit>>, <<>> before
    \* ---- get_stream_config(stream_id)
    cpc,            \* "call" before the function runs, "returned" after
    env_primary,    \* profiles/<profile>/.env.stream{i}: what is on disk
    env_secondary,  \* <script_dir>/.env.stream{i}: what is on disk
    config,         \* <<the StreamConfig returned>>, <<>> before
    resolved,       \* the paths get_stream_config gave at each call of a run
    \* ---- _collect_descendants_with_depth(root_pid, ppid_to_children)
    bpc,            \* "loop" while the queue is served, "returned" after
    bfs_root,       \* root_pid
    ppid_to_children, \* the children map: the list of children of each PID
    bfs_queue,      \* queue: the list of (pid, depth) still to serve
    bfs_seen,       \* seen
    bfs_depth_map,  \* depth_map, as <<pid, depth>> in insertion order
    enqueued,       \* every PID ever put on the queue, in order
    \* ---- score_cmdline(cmd)
    scpc,           \* "call" before the function runs, "returned" after
    cmdline,        \* the argument cmd
    score,          \* the return value
    \* ---- run_daemon.py: main and signal_handler
    dpc,            \* main: "register", "start", "started", "start_failed",
                    \* "pause", "exited"; "idle" outside the daemon's spec
    handler_frames, \* the calls of signal_handler in progress, outermost first
    stop_script,    \* STOP_SCRIPT on disk: "present" or "missing"
    stop_children,  \* the stop-script processes started, in order: "running",
                    \* "ok", "failed" or "killed"
    stop_attempts,  \* calls of subprocess.run([STOP_SCRIPT], timeout=180)
    signals,        \* the signals delivered to the daemon, in order
    daemon_exit     \* <<the exit status of the daemon>>, <<>> while it runs

osVars   == <<exists, behaviour, exists0, termDelivered, killDelivered>>
killVars == <<kpc, pids, grace_period, sec, termSent, killSent, warned,
              running_pids, remaining_pids, final_running, final_result>>
selVars  == <<spc, ps_lines, screen_pid, depth_map, candidates, target_pid>>
stabVars == <<fpc, file_present, check_count, max_wait, prev_size, same_count,
              samples, stable_result>>
fileVars == <<temp_output_path, final_output_path, lsof_installed, fs,
              rename_count, move_count, fcall, fs_before, examined, fret>>
stopEnv    == <<screen_status, screen_sessions, sessions_at_start, env_temp_files>>
stopResult == <<sessions, rtsp_pids, stopped_count, temp_files_removed,
                remaining_sessions, tail_done, mover_call, summary, exception,
                exit_status>>
stopLoop   == <<stream_i, pass_num, moved_count, total_processed, final_sweep_max>>
stopVars   == <<opc, stopEnv, stopResult, stopLoop>>
cfgVars    == <<cpc, env_primary, env_secondary, config, resolved>>
bfsVars    == <<bpc, bfs_root, ppid_to_children, bfs_queue, bfs_seen, bfs_depth_map,
               enqueued>>
scoreVars  == <<scpc, cmdline, score>>
daemonVars == <<dpc, handler_frames, stop_script, stop_children, stop_attempts,
                signals, daemon_exit>>
auxVars    == <<cfgVars, bfsVars, scoreVars, daemonVars>>
vars     == <<osVars, killVars, selVars, stabVars, fileVars, stopVars, auxVars>>

\* what each component leaves alone
notKill == <<selVars, stabVars, fileVars, stopVars, auxVars>>
notSel  == <<osVars, killVars, stabVars, fileVars, stopVars, auxVars>>
notStab == <<osVars, killVars, selVars, fileVars, stopVars, auxVars>>
notFiles == <<osVars, killVars, selVars, stabVars, auxVars>>
notCfg   == <<osVars, killVars, selVars, stabVars, fileVars, stopVars, bfsVars, scoreVars,
             daemonVars>>
notBfs   == <<osVars, killVars, selVars, stabVars, fileVars, stopVars, cfgVars, scoreVars,
             daemonVars>>
notScore == <<osVars, killVars, selVars, stabVars, fileVars, stopVars, cfgVars, bfsVars,
             daemonVars>>
notDaemon == <<osVars, killVars, selVars, stabVars, fileVars, stopVars, cfgVars, bfsVars,
               scoreVars>>

\* ---------------------------------------------------------------- bounds
MaxBatchPids == 2   \* PIDs that a batch can name
MaxBatch     == 2   \* length of a batch
MaxGrace     == 2   \* grace_period ranges over 0..MaxGrace
MaxProcs     == 3   \* processes in the ps snapshot besides screen itself
MaxCheck     == 3   \* check_count ranges over 0..MaxCheck
MaxWait      == 5   \* max_wait ranges over 0..MaxWait
MaxSizeSteps == 2   \* a file size is 0, 1024, ... MaxSizeSteps * 1024
MaxFiles     == 2   \* recording files on disk
NumStreams   == 2   \* num_streams, the argument of stop_all_streams
MaxSweepPasses == 2 \* FINAL_SWEEP_SECONDS ranges over 0..MaxSweepPasses
MaxEnvLines  == 2   \* lines of an environment file
MaxWords     == 3   \* words of a command line given to score_cmdline
MaxTreeProcs == 2   \* PIDs of a children map besides the root
MaxChildren  == 2   \* length of a children list
MaxSignals   == 3   \* signals delivered to the daemon in one lifetime

\* ------------------------------------------- constants of the source
StopGracePeriod   == 5    \* line 777: grace_period=5
DefaultCheckCount == 3    \* line 522: check_count: int = 3
DefaultMaxWait    == 15   \* line 523: max_wait: int = 15

\* ------------------------------------------------------------- utilities
Range(s) == {s[i] : i \in 1..Len(s)}

SeqsUpTo(S, n) == UNION {[1..k -> S] : k \in 0..n}

RECURSIVE FilterSeq(_, _)
\* the elements of s that are in the set keep, in order
FilterSeq(s, keep) ==
    IF s = <<>> THEN <<>>
    ELSE (IF Head(s) \in keep THEN <<Head(s)>> ELSE <<>>)
         \o FilterSeq(Tail(s), keep)

\* ================================================================ os.kill
\* Python's None, True and False as a function's return value
NONE == "None"
PyBool(b) == IF b THEN "True" ELSE "False"

\* Optional[int]: <<>> is None, <<pid>> is a PID
NoPid == <<>>
SomePid(p) == <<p>>

BatchPids == {50300 + i : i \in 1..MaxBatchPids}

\* "exits": exits some time after SIGTERM; "ignores": ignores SIGTERM and
\* dies only of SIGKILL; "denied": owned by someone else, every signal
\* (the probe signal 0 included) is rejected with EPERM.
Behaviours == {"exits", "ignores", "denied"}

\* What os.kill(pid, sig) does in the process table ex: the exception it
\* raises, or "ok".  kill(2) checks existence first (ESRCH), then the
\* permission (EPERM), for every signal number including 0.
os_kill(p, ex) ==
    IF ~ex[p] THEN "ProcessLookupError"
    ELSE IF behaviour[p] = "denied" THEN "PermissionError"
    ELSE "ok"

\* ---- the four loops over the batch.  Each body is a try block whose
\* ---- handlers catch ProcessLookupError and Exception, so every loop
\* ---- visits every PID of the list.

\* a variant in which the first PID ends the loop
sigterm_called_first_only(ps) == {ps[1]}

\* lines 389-398: PIDs of ps for which os.kill(pid, SIGTERM) was called
sigterm_called(ps) == Range(ps)

\* lines 395-396: PermissionError on SIGTERM is logged with logger.warning
sigterm_warned(ps, ex) == {p \in Range(ps) : os_kill(p, ex) = "PermissionError"}

\* lines 404-413, 424-431, 446-453: the probe loop.  os.kill(pid, 0)
\* appends the PID only when it raises nothing; ProcessLookupError and
\* every other exception (PermissionError is one) skip the append.
probe_ok(p, ex) == os_kill(p, ex) = "ok"

probe_running(ps, ex) == FilterSeq(ps, {p \in Range(ps) : probe_ok(p, ex)})

\* a variant that escalates against the whole batch
sigkill_targets_all(ps, remaining) == Range(ps)

\* lines 433-442: SIGKILL goes to the PIDs of remaining_pids
sigkill_targets(ps, remaining) == Range(remaining)

\* ================================================== kill_processes_by_pid
OSInit ==
    /\ behaviour \in [BatchPids -> Behaviours]
    /\ exists \in [BatchPids -> BOOLEAN]
    /\ exists0 = exists
    /\ termDelivered = {}
    /\ killDelivered = {}

KillInit ==
    /\ pids \in SeqsUpTo(BatchPids, MaxBatch)
    /\ grace_period \in 0..MaxGrace
    /\ kpc = "signal"
    /\ sec = 1
    /\ termSent = {}
    /\ killSent = {}
    /\ warned = {}
    /\ running_pids = <<>>
    /\ remaining_pids = <<>>
    /\ final_running = <<>>
    /\ final_result = NONE

\* lines 381-398: the empty batch returns True at once; otherwise SIGTERM
\* is sent to every PID.
SignalPhase ==
    /\ kpc = "signal"
    /\ IF pids = <<>>
       THEN /\ final_result' = PyBool(TRUE)
            /\ kpc' = "done"
            /\ UNCHANGED <<termSent, warned, termDelivered>>
       ELSE /\ termSent' = sigterm_called(pids)
            /\ warned' = sigterm_warned(pids, exists)
            /\ termDelivered' = {p \in sigterm_called(pids) : os_kill(p, exists) = "ok"}
            /\ kpc' = IF grace_period >= 1 THEN "grace" ELSE "escalate"
            /\ UNCHANGED final_result
    /\ UNCHANGED <<exists, behaviour, exists0, killDelivered, pids, grace_period,
                   sec, killSent, running_pids, remaining_pids, final_running>>
    /\ UNCHANGED notKill

\* a variant of the loop that never leaves before the last round
grace_break_never(running) == FALSE

\* lines 415-417: `if not running_pids: ... break`
grace_break(running) == running = <<>>

\* lines 402-420: one round of the grace loop: probe every PID, leave the
\* loop when none runs, otherwise sleep one second and go on to sec + 1.
GraceRound ==
    /\ kpc = "grace"
    /\ sec \in 1..grace_period
    /\ running_pids' = probe_running(pids, exists)
    /\ IF grace_break(running_pids')
       THEN kpc' = "escalate" /\ UNCHANGED sec
       ELSE /\ sec' = sec + 1
            /\ kpc' = IF sec + 1 > grace_period THEN "escalate" ELSE "grace"
    /\ UNCHANGED <<osVars, pids, grace_period, termSent, killSent, warned,
                   remaining_pids, final_running, final_result>>
    /\ UNCHANGED notKill

\* lines 423-442: probe again and send SIGKILL to what is still running
EscalationPhase ==
    /\ kpc = "escalate"
    /\ remaining_pids' = probe_running(pids, exists)
    /\ killSent' = sigkill_targets(pids, remaining_pids')
    /\ killDelivered' = {p \in killSent' : os_kill(p, exists) = "ok"}
    /\ kpc' = "verify"
    /\ UNCHANGED <<exists, behaviour, exists0, termDelivered, pids, grace_period,
                   sec, termSent, warned, running_pids, final_running, final_result>>
    /\ UNCHANGED notKill

\* lines 445-460: the final probe decides the result
VerifyPhase ==
    /\ kpc = "verify"
    /\ final_running' = probe_running(pids, exists)
    /\ final_result' = PyBool(Len(final_running') = 0)
    /\ kpc' = "done"
    /\ UNCHANGED <<osVars, pids, grace_period, sec, termSent, killSent, warned,
                   running_pids, remaining_pids>>
    /\ UNCHANGED notKill

\* The environment: a signalled process goes away, at a moment of its own
\* choosing while the call runs (SIGTERM handlers take time, SIGKILL is
\* delivered asynchronously).  A "denied" process received nothing.
ProcessExits ==
    /\ kpc \in {"grace", "escalate", "verify"}
    /\ \E p \in BatchPids :
        /\ exists[p]
        /\ \/ p \in termDelivered /\ behaviour[p] = "exits"
           \/ p \in killDelivered
        /\ exists' = [exists EXCEPT ![p] = FALSE]
    /\ UNCHANGED <<behaviour, exists0, termDelivered, killDelivered, killVars>>
    /\ UNCHANGED notKill

NextKill ==
    \/ SignalPhase
    \/ GraceRound
    \/ EscalationPhase
    \/ VerifyPhase
    \/ ProcessExits

\* ======================================================== score_cmdline
\* Command lines are sequences of characters, so that Python's substring
\* test `x in cmd` is computed and not assumed.
Contains(pat, s) ==
    \E i \in 1..(Len(s) - Len(pat) + 1) : SubSeq(s, i, i + Len(pat) - 1) = pat

\* f" {cmd} "
Padded(cmd) == <<" ">> \o cmd \o <<" ">>

MARK_RUN_PY  == <<"r","u","n",".","p","y">>
MARK_PYTHON  == <<"p","y","t","h","o","n">>
MARK_PYTHON3 == <<"p","y","t","h","o","n","3">>
MARK_UV      == <<" ","u","v"," ">>
\* [' bash', ' sh ', ' screen', ' pstree', ' ps ']
SHELL_MARKS  == << <<" ","b","a","s","h">>,
                   <<" ","s","h"," ">>,
                   <<" ","s","c","r","e","e","n">>,
                   <<" ","p","s","t","r","e","e">>,
                   <<" ","p","s"," ">> >>

\* the number of blocklist entries found in f" {cmd} "
shell_hits(cmd) ==
    Cardinality({k \in 1..Len(SHELL_MARKS) : Contains(SHELL_MARKS[k], Padded(cmd))})

score_cmdline(cmd) ==
      (IF Contains(MARK_RUN_PY, cmd) THEN 100 ELSE 0)
    + (IF Contains(MARK_PYTHON, cmd) \/ Contains(MARK_PYTHON3, cmd) THEN 60 ELSE 0)
    + (IF Contains(MARK_UV, Padded(cmd)) THEN 50 ELSE 0)
    - 100 * shell_hits(cmd)

\* ================================================= _build_process_maps
\* A parsed ps line is [pid, ppid, cmd].  The maps are built in line order.

\* ppid_to_children.get(pp, []): the PIDs of the lines whose ppid is pp
RECURSIVE children_of(_, _)
children_of(pp, lines) ==
    IF lines = <<>> THEN <<>>
    ELSE (IF Head(lines).ppid = pp THEN <<Head(lines).pid>> ELSE <<>>)
         \o children_of(pp, Tail(lines))

\* pid_to_cmd.get(pid, ''): the last line of that PID wins
RECURSIVE pid_to_cmd(_, _)
pid_to_cmd(pid, lines) ==
    IF lines = <<>> THEN <<>>
    ELSE IF lines[Len(lines)].pid = pid THEN lines[Len(lines)].cmd
    ELSE pid_to_cmd(pid, SubSeq(lines, 1, Len(lines) - 1))

\* ===================================== _collect_descendants_with_depth
\* The state of the traversal: queue of <<pid, depth>>, the set seen and
\* the depth map, a sequence of <<pid, depth>> in insertion order (a
\* Python dict keeps insertion order).

\* a variant without the seen-set
already_seen_never(child, seen) == FALSE

\* lines 323-324: a child already seen is skipped
already_seen(child, seen) == child \in seen

\* a variant that gives every descendant the depth of a direct child
child_depth_flat(depth) == 1

\* lines 326-327: depth + 1, for the depth map and for the queue
child_depth(depth) == depth + 1

\* lines 322-327: the for loop over the children of current
RECURSIVE visit_children(_, _, _)
visit_children(kids, depth, st) ==
    IF kids = <<>> THEN st
    ELSE LET child == Head(kids) IN
         IF already_seen(child, st.seen)
         THEN visit_children(Tail(kids), depth, st)
         ELSE visit_children(Tail(kids), depth,
                [queue     |-> Append(st.queue, <<child, child_depth(depth)>>),
                 seen      |-> st.seen \cup {child},
                 depth_map |-> Append(st.depth_map, <<child, child_depth(depth)>>)])

\* lines 320-321: the while loop
RECURSIVE bfs(_, _)
bfs(st, lines) ==
    IF st.queue = <<>> THEN st.depth_map
    ELSE LET current == Head(st.queue)[1]
             depth   == Head(st.queue)[2]
         IN bfs(visit_children(children_of(current, lines), depth,
                               [st EXCEPT !.queue = Tail(st.queue)]),
                lines)

collect_descendants_with_depth(root_pid, lines) ==
    bfs([queue |-> << <<root_pid, 0>> >>, seen |-> {root_pid}, depth_map |-> <<>>],
        lines)

\* ============================================ _select_target_child_pid
\* a variant that orders by depth before score
sort_key_depth_first(c) == <<c.depth, c.score>>

\* line 365: key=lambda x: (x[1], x[2])
sort_key(c) == <<c.score, c.depth>>

\* a variant that compares the first component only
KeyLess_score_only(a, b) == a[1] < b[1]

\* Python's tuple order on the keys
KeyLess(a, b) == a[1] < b[1] \/ (a[1] = b[1] /\ a[2] < b[2])

\* list.sort(reverse=True) is stable: equal keys keep their order
RECURSIVE insert_desc(_, _)
insert_desc(sorted, c) ==
    IF sorted = <<>> THEN <<c>>
    ELSE IF KeyLess(sort_key(Head(sorted)), sort_key(c))
         THEN <<c>> \o sorted
         ELSE <<Head(sorted)>> \o insert_desc(Tail(sorted), c)

RECURSIVE sort_desc(_, _)
sort_desc(todo, sorted) ==
    IF todo = <<>> THEN sorted
    ELSE sort_desc(Tail(todo), insert_desc(sorted, Head(todo)))

\* lines 359-365
build_candidates(dm, lines) ==
    sort_desc([i \in 1..Len(dm) |->
                 [pid   |-> dm[i][1],
                  score |-> score_cmdline(pid_to_cmd(dm[i][1], lines)),
                  depth |-> dm[i][2]]],
              <<>>)

\* lines 366-369: the first candidate of the sorted list with sc > 0
RECURSIVE first_positive(_)
first_positive(cands) ==
    IF cands = <<>> THEN NoPid
    ELSE IF Head(cands).score > 0 THEN SomePid(Head(cands).pid)
    ELSE first_positive(Tail(cands))

\* lines 371-376: no candidate scored: candidates[0]
fallback_candidate(cands) == IF cands # <<>> THEN SomePid(cands[1].pid) ELSE NoPid

\* a variant without the fallback of lines 371-375
select_from_no_fallback(cands) == first_positive(cands)

select_from(cands) ==
    IF first_positive(cands) # NoPid THEN first_positive(cands)
    ELSE fallback_candidate(cands)

ScreenPid == 50214

Procs == {50300 + i : i \in 1..MaxProcs}

\* the command lines of the snapshot, with their score
\* `python run.py`: 100 + 60 = 160
CMD_WORKER  == <<"p","y","t","h","o","n"," ","r","u","n",".","p","y">>
\* `ffmpeg`: 0
CMD_FFMPEG  == <<"f","f","m","p","e","g">>
\* `bash`: -100
CMD_BASH    == <<"b","a","s","h">>
\* `bash -c python run.py`: 100 + 60 - 100 = 60
CMD_SHELL_WORKER == <<"b","a","s","h"," ","-","c"," ","p","y","t","h","o","n"," ","r","u","n",".","p","y">>
\* `bash -c sh run.py`: 100 - 100 - 100 = -100
CMD_WRAPPED == <<"b","a","s","h"," ","-","c"," ","s","h"," ","r","u","n",".","p","y">>
Cmds == {CMD_WORKER, CMD_FFMPEG, CMD_BASH, CMD_SHELL_WORKER, CMD_WRAPPED}

\* ps prints one line per process, by ascending PID.  A process has as
\* parent the screen session, another process of the snapshot (itself
\* included: a malformed table) or PID 1, which is outside the session.
PsSnapshot(parent, cmd) ==
    [i \in 1..MaxProcs |-> [pid |-> 50300 + i, ppid |-> parent[50300 + i],
                            cmd |-> cmd[50300 + i]]]

SelInit ==
    /\ spc = "call"
    /\ screen_pid = ScreenPid
    /\ \E parent \in [Procs -> {1, ScreenPid} \cup Procs], cmd \in [Procs -> Cmds] :
          ps_lines = PsSnapshot(parent, cmd)
    /\ depth_map = <<>>
    /\ candidates = <<>>
    /\ target_pid = NoPid

\* lines 338-376, the whole function
SelectTarget ==
    /\ spc = "call"
    /\ depth_map' = collect_descendants_with_depth(screen_pid, ps_lines)
    /\ IF depth_map' = <<>>
       THEN candidates' = <<>> /\ target_pid' = NoPid
       ELSE /\ candidates' = build_candidates(depth_map', ps_lines)
            /\ target_pid' = select_from(candidates')
    /\ spc' = "returned"
    /\ UNCHANGED <<ps_lines, screen_pid>>
    /\ UNCHANGED notSel

NextSelect == SelectTarget

\* ======================================================== is_file_stable
Sizes == {1024 * k : k \in 0..MaxSizeSteps}

\* a variant whose guard on the initial sample is inverted
sample_matches_first_counts(prev, cur) == cur = prev \/ prev < 0

\* line 534: current_size == prev_size and prev_size >= 0
sample_matches(prev, cur) == cur = prev /\ prev >= 0

\* a variant that forgets the reset
count_after_change_kept(same) == same

\* line 539: same_count = 0
count_after_change(same) == 0

\* a variant of the loop that runs one more time
budget_left_one_more(n, max) == n <= max

\* line 531: `for _ in range(max_wait)`: n iterations done, one more to come
budget_left(n, max) == n < max

StabInit ==
    /\ fpc = "call"
    /\ file_present \in BOOLEAN
    /\ check_count \in 0..MaxCheck
    /\ max_wait \in 0..MaxWait
    /\ prev_size = -1
    /\ same_count = 0
    /\ samples = <<>>
    /\ stable_result = NONE

\* lines 525-529: a missing file returns False; otherwise the loop starts
StableCall ==
    /\ fpc = "call"
    /\ IF ~file_present
       THEN fpc' = "returned" /\ stable_result' = "False"
       ELSE fpc' = "loop" /\ UNCHANGED stable_result
    /\ UNCHANGED <<file_present, check_count, max_wait, prev_size, same_count, samples>>
    /\ UNCHANGED notStab

\* a test that is content with one equal sample less
count_reached_early(n, count) == n + 1 >= count

\* line 535: `if same_count >= check_count`
count_reached(n, count) == n >= count

\* lines 531-544: one iteration of the loop with getsize returning cur
StableSample ==
    /\ fpc = "loop"
    /\ budget_left(Len(samples), max_wait)
    /\ \E cur \in Sizes :
        /\ samples' = Append(samples, cur)
        /\ IF sample_matches(prev_size, cur)
           THEN /\ same_count' = same_count + 1
                /\ UNCHANGED prev_size
                /\ IF count_reached(same_count', check_count)
                   THEN fpc' = "returned" /\ stable_result' = "True"
                   ELSE UNCHANGED <<fpc, stable_result>>
           ELSE /\ same_count' = count_after_change(same_count)
                /\ prev_size' = cur
                /\ UNCHANGED <<fpc, stable_result>>
    /\ UNCHANGED <<file_present, check_count, max_wait>>
    /\ UNCHANGED notStab

\* lines 541-542: getsize raises OSError (the file vanished): return False
StableVanished ==
    /\ fpc = "loop"
    /\ budget_left(Len(samples), max_wait)
    /\ fpc' = "returned"
    /\ stable_result' = "False"
    /\ UNCHANGED <<file_present, check_count, max_wait, prev_size, same_count, samples>>
    /\ UNCHANGED notStab

\* line 546: the loop ran max_wait times without returning
StableExhausted ==
    /\ fpc = "loop"
    /\ ~budget_left(Len(samples), max_wait)
    /\ fpc' = "returned"
    /\ stable_result' = "False"
    /\ UNCHANGED <<file_present, check_count, max_wait, prev_size, same_count, samples>>
    /\ UNCHANGED notStab

NextStable ==
    \/ StableCall
    \/ StableSample
    \/ StableVanished
    \/ StableExhausted

\* ============================================================ file names
\* File names are sequences of characters, so that the glob patterns, the
\* slice and the regular expression are computed on them.
TEMP_PREFIX == <<"t","e","m","p","_">>
EXT_MP4 == <<".","m","p","4">>
EXT_SRT == <<".","s","r","t">>
DIGITS == <<"0","1","2","3","4","5","6","7","8","9">>

startswith(s, prefix) ==
    Len(s) >= Len(prefix) /\ SubSeq(s, 1, Len(prefix)) = prefix

endswith(s, suffix) ==
    Len(s) >= Len(suffix) /\ SubSeq(s, Len(s) - Len(suffix) + 1, Len(s)) = suffix

\* lines 566, 575: fnmatch of "temp_*.mp4" and "temp_*.srt" (the star
\* matches the empty string too, but prefix and extension do not overlap)
glob_temp(name, ext) ==
    /\ Len(name) >= Len(TEMP_PREFIX) + Len(ext)
    /\ startswith(name, TEMP_PREFIX)
    /\ endswith(name, ext)

\* line 588: base_name[5:]
final_name(base_name) == SubSeq(base_name, 6, Len(base_name))

is_digits(s) == \A k \in 1..Len(s) : s[k] \in Range(DIGITS)

\* line 617: _(\d{6})_(\d{6})\.(mp4|srt)$ , searched in the name: the
\* last 18 characters decide
pattern_search(name) ==
    /\ Len(name) >= 18
    /\ LET t == SubSeq(name, Len(name) - 17, Len(name)) IN
         /\ t[1] = "_"
         /\ is_digits(SubSeq(t, 2, 7))
         /\ t[8] = "_"
         /\ is_digits(SubSeq(t, 9, 14))
         /\ SubSeq(t, 15, 18) \in {EXT_MP4, EXT_SRT}

\* match.group(1) and match.group(2)
date_part(name) == SubSeq(name, Len(name) - 16, Len(name) - 11)
time_part(name) == SubSeq(name, Len(name) - 9, Len(name) - 4)

\* int() of a string of decimal digits
digit_value(c) == CHOOSE v \in 0..9 : DIGITS[v + 1] = c

RECURSIVE int_of(_)
int_of(s) ==
    IF s = <<>> THEN 0
    ELSE 10 * int_of(SubSeq(s, 1, Len(s) - 1)) + digit_value(s[Len(s)])

\* str() of a natural number
RECURSIVE str_of(_)
str_of(n) ==
    IF n < 10 THEN <<DIGITS[n + 1]>>
    ELSE str_of(n \div 10) \o <<DIGITS[(n % 10) + 1]>>

\* a variant that keeps the two digits of the name as the year
year_of_two_digits(name) == int_of(SubSeq(date_part(name), 1, 2))

\* line 632: year = int(date_part[:2]) + 2000
year_of(name) == int_of(SubSeq(date_part(name), 1, 2)) + 2000

\* lines 633-638: final_output_path / str(year) / month / day / hour, as
\* the sequence of the path's components
target_dir(final_root, name) ==
    <<final_root,
      str_of(year_of(name)),
      SubSeq(date_part(name), 3, 4),
      SubSeq(date_part(name), 5, 6),
      SubSeq(time_part(name), 1, 2)>>

\* `temp_cam1_250131_235901.mp4`: an in-progress recording
NAME_TEMP_MP4 == <<"t","e","m","p","_","c","a","m","1","_","2","5","0","1","3","1","_","2","3","5","9","0","1",".","m","p","4">>
\* `cam1_250131_235901.mp4`: a finished recording
NAME_MP4 == <<"c","a","m","1","_","2","5","0","1","3","1","_","2","3","5","9","0","1",".","m","p","4">>
\* `temp_cam2_991231_000000.srt`: an in-progress subtitle file
NAME_TEMP_SRT == <<"t","e","m","p","_","c","a","m","2","_","9","9","1","2","3","1","_","0","0","0","0","0","0",".","s","r","t">>
\* `temp_temp_cam1_250131_235901.mp4`: an in-progress recording whose base name starts with temp_
NAME_TEMP_TEMP == <<"t","e","m","p","_","t","e","m","p","_","c","a","m","1","_","2","5","0","1","3","1","_","2","3","5","9","0","1",".","m","p","4">>
\* `temp_cam1_250131_235901.txt`: prefixed, but neither mp4 nor srt
NAME_TEMP_TXT == <<"t","e","m","p","_","c","a","m","1","_","2","5","0","1","3","1","_","2","3","5","9","0","1",".","t","x","t">>
\* `cam1_250131.mp4`: finished, without the time part
NAME_NO_TIME == <<"c","a","m","1","_","2","5","0","1","3","1",".","m","p","4">>
Names == {NAME_TEMP_MP4, NAME_MP4, NAME_TEMP_SRT, NAME_TEMP_TEMP, NAME_TEMP_TXT, NAME_NO_TIME}

\* ===================================================== the file system
\* A file is a record [id, dir, name, cond]; dir is the sequence of the
\* components of its directory's path.  cond is what the operating system
\* does with the file: "growing" is still written to (its size changes
\* from one sample to the next), "open" is held open by a process,
\* "locked" cannot be renamed (Path.rename raises OSError), "ready" is
\* none of these.
Conditions == {"ready", "growing", "open", "locked"}

FileIds == 1..MaxFiles
Streams == 1..NumStreams

\* line 496: the default temp directory, a second one, and one that does
\* not exist
TEMP_DEFAULT == "./output/temp/"
TEMP_OTHER   == "./output/temp2/"
TEMP_MISSING == "./output/missing/"
TempDirs == {TEMP_DEFAULT, TEMP_OTHER, TEMP_MISSING}

\* line 497: the default final root, and one under which no directory can
\* be created (a mount that is read-only or gone)
FINAL_DEFAULT == "/mnt/nas/cam"
FINAL_OFFLINE == "/mnt/offline"
FinalRoots == {FINAL_DEFAULT, FINAL_OFFLINE}

\* lines 560, 613: temp_path.exists()
path_exists(temp_dir) == temp_dir # TEMP_MISSING

\* line 639: target_dir.mkdir(parents=True, exist_ok=True) raises OSError
\* when a component cannot be created; the call is outside the try block
mkdir_raises(dir) == dir[1] = FINAL_OFFLINE

\* the entries of a directory
entries(fsys, dir) == {f \in fsys : f.dir = dir}

names_in(fsys, dir) == {f.name : f \in entries(fsys, dir)}

file_at(fsys, dir, name) == CHOOSE f \in fsys : f.dir = dir /\ f.name = name

\* a variant that leaves the file at its old path as well
copied_fs(fsys, f, to_dir, to_name) ==
    {g \in fsys : ~(g.dir = to_dir /\ g.name = to_name)}
    \cup {[f EXCEPT !.dir = to_dir, !.name = to_name]}

\* Path.rename(target) of a file that exists: the file takes the new
\* path, and a file that was there is replaced (rename(2))
renamed_fs(fsys, f, to_dir, to_name) ==
    LET moved == [f EXCEPT !.dir = to_dir, !.name = to_name]
    IN {g \in fsys : g.id # f.id /\ ~(g.dir = to_dir /\ g.name = to_name)} \cup {moved}

\* the orders in which a directory listing can give a set of names
Perms(S) ==
    {p \in [1..Cardinality(S) -> S] : \A a, b \in 1..Cardinality(S) : p[a] = p[b] => a = b}

\* ------------------------------------- is_file_stable and is_file_in_use
\* the sizes getsize returns for the file, one per second
size_samples(f) ==
    [k \in 1..DefaultMaxWait |-> IF f.cond = "growing" THEN 1024 * k ELSE 1024]

\* lines 531-546 on a sequence of samples: the for loop of is_file_stable
RECURSIVE stable_scan(_, _, _, _)
stable_scan(todo, prev, same, count) ==
    IF todo = <<>> THEN FALSE
    ELSE IF sample_matches(prev, Head(todo))
         THEN (IF same + 1 >= count THEN TRUE
               ELSE stable_scan(Tail(todo), prev, same + 1, count))
         ELSE stable_scan(Tail(todo), Head(todo), count_after_change(same), count)

\* line 591: is_file_stable(str(file_path)) with the default arguments
is_file_stable(fsys, dir, name) ==
    /\ name \in names_in(fsys, dir)
    /\ stable_scan(size_samples(file_at(fsys, dir, name)), -1, 0, DefaultCheckCount)

\* lines 550-555: lsof exits with 0 when a process holds the file; a
\* missing lsof counts as "not in use"
is_file_in_use(fsys, dir, name, lsof) ==
    /\ lsof
    /\ name \in names_in(fsys, dir)
    /\ file_at(fsys, dir, name).cond = "open"

\* ------------------------------------------------- _process_single_file
\* The state of a call: the files, the count so far, the renames per file
\* and, for each entry handled, what was found (stable, in use) and what
\* became of Path.rename: "no" (not called), "ok" or "failed" (OSError).
found(st, dir, name, lsof, outcome) ==
    [name    |-> name,
     id      |-> IF name \in names_in(st.fs, dir) THEN file_at(st.fs, dir, name).id ELSE 0,
     stable  |-> is_file_stable(st.fs, dir, name),
     in_use  |-> is_file_in_use(st.fs, dir, name, lsof),
     renamed |-> outcome]

\* a variant that renames without the in-use check
holds_back_never(fsys, dir, name, lsof) == FALSE

\* lines 591-598: the two checks that hold a rename back
holds_back(fsys, dir, name, lsof) ==
    \/ ~is_file_stable(fsys, dir, name)
    \/ is_file_in_use(fsys, dir, name, lsof)

\* lines 585-608
process_single_file(st, dir, name, lsof) ==
    IF holds_back(st.fs, dir, name, lsof)
    THEN [st EXCEPT !.examined = @ \cup {found(st, dir, name, lsof, "no")}]
    ELSE LET f == file_at(st.fs, dir, name) IN
         IF f.cond = "locked"
         THEN [st EXCEPT !.examined = @ \cup {found(st, dir, name, lsof, "failed")}]
         ELSE [st EXCEPT !.fs = renamed_fs(st.fs, f, dir, final_name(name)),
                         !.examined = @ \cup {found(st, dir, name, lsof, "ok")},
                         !.rc = [@ EXCEPT ![f.id] = @ + 1],
                         !.count = @ + 1]

\* lines 570-572, 579-581: the for loop over one listing
RECURSIVE process_listing(_, _, _, _)
process_listing(order, st, dir, lsof) ==
    IF order = <<>> THEN st
    ELSE process_listing(Tail(order), process_single_file(st, dir, Head(order), lsof),
                         dir, lsof)

\* lines 566, 575: temp_path.glob("temp_*.mp4"), temp_path.glob("temp_*.srt")
glob_matches(fsys, dir, ext) == {n \in names_in(fsys, dir) : glob_temp(n, ext)}

\* -------------------------------------------------------- final_sweep_move
\* a variant that sweeps the prefixed files too
sweep_skips_none(name) == ~pattern_search(name)

\* lines 620-625: the entries the sweep leaves alone
sweep_skips(name) == startswith(name, TEMP_PREFIX) \/ ~pattern_search(name)

\* lines 620-648: the body of the loop for one entry; raised is set when
\* mkdir raises, and then the rest of the loop does not run
sweep_entry(st, dir, name, final_root) ==
    IF st.raised \/ sweep_skips(name) THEN st
    ELSE IF mkdir_raises(target_dir(final_root, name))
    THEN [st EXCEPT !.raised = TRUE]
    ELSE IF name \notin names_in(st.fs, dir)
    THEN [st EXCEPT !.examined = @ \cup {found(st, dir, name, FALSE, "failed")}]
    ELSE LET f == file_at(st.fs, dir, name) IN
         IF f.cond = "locked"
         THEN [st EXCEPT !.examined = @ \cup {found(st, dir, name, FALSE, "failed")}]
         ELSE [st EXCEPT !.fs = renamed_fs(st.fs, f, target_dir(final_root, name), name),
                         !.examined = @ \cup {found(st, dir, name, FALSE, "ok")},
                         !.rc = [@ EXCEPT ![f.id] = @ + 1],
                         !.count = @ + 1]

\* line 619: the for loop over temp_path.glob("*")
RECURSIVE sweep_listing(_, _, _, _)
sweep_listing(order, st, dir, final_root) ==
    IF order = <<>> THEN st
    ELSE sweep_listing(Tail(order), sweep_entry(st, dir, Head(order), final_root),
                       dir, final_root)

\* ------------------------------ the file stages of stop_all_streams
\* the state of a call of process_temp_files or final_sweep_move at entry
call_entry(fsys, counts) ==
    [fs |-> fsys, count |-> 0, examined |-> {}, rc |-> counts, raised |-> FALSE]

\* lines 794-796: get_stream_config(i) and process_temp_files(config) for
\* the stream i, the whole call (lines 557-583)
FinalizeStream ==
    /\ opc = "finalize"
    /\ stream_i \in Streams
    /\ LET dir == <<temp_output_path[stream_i]>> IN
       \E mp4_files \in Perms(glob_matches(fs, dir, EXT_MP4)) :
         LET s1 == process_listing(mp4_files, call_entry(fs, rename_count), dir,
                                   lsof_installed)
         IN \E srt_files \in Perms(glob_matches(s1.fs, dir, EXT_SRT)) :
              LET s2 == process_listing(srt_files, s1, dir, lsof_installed)
                  ret == IF path_exists(temp_output_path[stream_i]) THEN s2 ELSE
                            call_entry(fs, rename_count)
              IN /\ fs' = ret.fs
                 /\ rename_count' = ret.rc
                 /\ examined' = ret.examined
                 /\ fret' = <<ret.count>>
                 /\ total_processed' = total_processed + ret.count
    /\ fs_before' = fs
    /\ fcall' = [fn |-> "process_temp_files", stream |-> stream_i, pass |-> 0,
                 counts |-> rename_count]
    /\ stream_i' = IF stream_i = NumStreams THEN 1 ELSE stream_i + 1
    /\ opc' = IF stream_i = NumStreams THEN "settle" ELSE "finalize"
    /\ UNCHANGED <<temp_output_path, final_output_path, lsof_installed, move_count>>
    /\ UNCHANGED <<pass_num, moved_count, final_sweep_max>>
    /\ UNCHANGED <<stopEnv, stopResult, notFiles>>

\* a variant that goes back to the finalization when the sweeps are over
after_file_stages_again == "finalize"

\* line 820: what follows the block of the file stages (lines 789-817) is
\* cleanup_temp_files
after_file_stages == "cleanup"

\* lines 799-806: the pause for the file mover, FINAL_SWEEP_SECONDS read
\* from the environment, and the entry of the pass loop (range(1, n + 1)
\* is empty for n = 0)
SettleWait ==
    /\ opc = "settle"
    /\ \E n \in 0..MaxSweepPasses :
        /\ final_sweep_max' = n
        /\ opc' = IF n >= 1 THEN "sweep" ELSE after_file_stages
    /\ pass_num' = 1
    /\ moved_count' = 0
    /\ stream_i' = 1
    /\ UNCHANGED <<fileVars, total_processed, stopEnv, stopResult, notFiles>>

\* lines 809-810: get_stream_config(i) and final_sweep_move(config) for
\* the stream i, the whole call (lines 610-650).  An exception of mkdir
\* leaves final_sweep_move and stop_all_streams.
SweepStream ==
    /\ opc = "sweep"
    /\ stream_i \in Streams
    /\ LET dir == <<temp_output_path[stream_i]>> IN
       \E listed \in Perms(names_in(fs, dir)) :
         LET s1  == sweep_listing(listed, call_entry(fs, move_count), dir,
                                  final_output_path[stream_i])
             ret == IF path_exists(temp_output_path[stream_i]) THEN s1 ELSE
                       call_entry(fs, move_count)
         IN /\ fs' = ret.fs
            /\ move_count' = ret.rc
            /\ examined' = ret.examined
            /\ IF ret.raised
               THEN /\ fret' = <<>>
                    /\ opc' = "raised"
                    /\ exception' = "OSError"
                    /\ UNCHANGED <<moved_count, stream_i>>
               ELSE /\ fret' = <<ret.count>>
                    /\ moved_count' = moved_count + ret.count
                    /\ stream_i' = IF stream_i = NumStreams THEN 1 ELSE stream_i + 1
                    /\ opc' = IF stream_i = NumStreams THEN "pass_end" ELSE "sweep"
                    /\ UNCHANGED exception
    /\ fs_before' = fs
    /\ fcall' = [fn |-> "final_sweep_move", stream |-> stream_i, pass |-> pass_num,
                 counts |-> move_count]
    /\ UNCHANGED <<temp_output_path, final_output_path, lsof_installed, rename_count>>
    /\ UNCHANGED <<pass_num, total_processed, final_sweep_max>>
    /\ UNCHANGED <<stopEnv, sessions, rtsp_pids, stopped_count, temp_files_removed,
                   remaining_sessions, tail_done, mover_call, summary, exit_status,
                   notFiles>>

\* a variant of the loop that only ends with the last pass
sweep_loop_ends_at_max(moved, pass, max) == pass = max

\* lines 812-814 and 806: `if moved_count == 0: break`, and the end of
\* range(1, final_sweep_max + 1)
sweep_loop_ends(moved, pass, max) == moved = 0 \/ pass = max

\* lines 812-817 and 806: a pass that moved nothing ends the loop, and so
\* does the last pass; otherwise sleep one second and start the next pass
PassEnd ==
    /\ opc = "pass_end"
    /\ IF sweep_loop_ends(moved_count, pass_num, final_sweep_max)
       THEN opc' = after_file_stages /\ UNCHANGED <<pass_num, moved_count>>
       ELSE opc' = "sweep" /\ pass_num' = pass_num + 1 /\ moved_count' = 0
    /\ UNCHANGED <<fileVars, stream_i, total_processed, final_sweep_max>>
    /\ UNCHANGED <<stopEnv, stopResult, notFiles>>

\* ========================================================== screen -list
\* A session is a record [pid, name, status]: the PID of the screen
\* process, the session name and the status screen prints for it.  The
\* text of `screen -list` is a sequence of lines, each a sequence of
\* characters, so that the substring tests and the parse of the PID are
\* computed.
BASE_SESSION_NAME  == <<"r","t","s","p","_","s","t","r","e","a","m">>
FILE_MOVER_SESSION == <<"r","t","s","p","_","f","i","l","e","_","m","o","v","e","r">>
DETACHED == <<"D","e","t","a","c","h","e","d">>
ATTACHED == <<"A","t","t","a","c","h","e","d">>
DEAD     == <<"D","e","a","d"," ","?","?","?">>
TAB == "\t"
LINE_HEADER  == <<"T","h","e","r","e"," ","a","r","e"," ","s","c","r","e","e","n","s"," ","o","n",":">>
LINE_FOOTER  == <<"S","o","c","k","e","t","s"," ","i","n"," ","/","r","u","n","/","s","c","r","e","e","n","/","S","-","r","o","o","t",".">>
LINE_NOTHING == <<"N","o"," ","S","o","c","k","e","t","s"," ","f","o","u","n","d"," ","i","n"," ","/","r","u","n","/","s","c","r","e","e","n","/","S","-","r","o","o","t",".">>

\* the line screen prints for a session: "\t<pid>.<name>\t(<status>)"
session_line(s) ==
    <<TAB>> \o str_of(s.pid) \o <<".">> \o s.name \o <<TAB, "(">> \o s.status \o <<")">>

\* the session lines by ascending PID
RECURSIVE session_lines(_)
session_lines(ss) ==
    IF ss = {} THEN <<>>
    ELSE LET first == CHOOSE s \in ss : \A t \in ss : s.pid <= t.pid
         IN <<session_line(first)>> \o session_lines(ss \ {first})

\* What running ['screen', '-list'] gives: the exception FileNotFoundError
\* when the binary is absent, else the exit status and stdout.  screen
\* exits with 1 when it has no session to list; "broken" is a screen that
\* prints its list and exits with another non-zero status.
screen_list(status, ss) ==
    IF status = "absent" THEN [error |-> "FileNotFoundError", returncode |-> 0, stdout |-> <<>>]
    ELSE IF status = "broken"
    THEN [error |-> "none", returncode |-> 2,
          stdout |-> <<LINE_HEADER>> \o session_lines(ss) \o <<LINE_FOOTER>>]
    ELSE IF ss = {} THEN [error |-> "none", returncode |-> 1, stdout |-> <<LINE_NOTHING>>]
    ELSE [error |-> "none", returncode |-> 0,
          stdout |-> <<LINE_HEADER>> \o session_lines(ss) \o <<LINE_FOOTER>>]

\* len([line for line in output.split('\n') if name in line])
count_lines(name, stdout) ==
    Cardinality({k \in 1..Len(stdout) : Contains(name, stdout[k])})

\* name in result.stdout
in_stdout(name, stdout) == \E k \in 1..Len(stdout) : Contains(name, stdout[k])

ZERO_COUNTS == [streams |-> 0, mover |-> 0, total |-> 0]

\* a variant that reads stdout whatever the exit status is
get_running_sessions_unchecked(status, ss) ==
    LET r == screen_list(status, ss) IN
    [streams |-> count_lines(BASE_SESSION_NAME, r.stdout),
     mover   |-> count_lines(FILE_MOVER_SESSION, r.stdout),
     total   |-> count_lines(BASE_SESSION_NAME, r.stdout)
                 + count_lines(FILE_MOVER_SESSION, r.stdout)]

\* lines 86-117: subprocess.run(..., check=True) raises CalledProcessError
\* for every non-zero exit status
get_running_sessions(status, ss) ==
    LET r == screen_list(status, ss) IN
    IF r.error = "FileNotFoundError" THEN ZERO_COUNTS
    ELSE IF r.returncode # 0 THEN ZERO_COUNTS
    ELSE [streams |-> count_lines(BASE_SESSION_NAME, r.stdout),
          mover   |-> count_lines(FILE_MOVER_SESSION, r.stdout),
          total   |-> count_lines(BASE_SESSION_NAME, r.stdout)
                      + count_lines(FILE_MOVER_SESSION, r.stdout)]

\* line 212: parts = line.split('.'); parts[0] is the text before the
\* first dot
RECURSIVE before_dot(_)
before_dot(line) ==
    IF line = <<>> \/ Head(line) = "." THEN <<>>
    ELSE <<Head(line)>> \o before_dot(Tail(line))

\* str.strip(): without the white space at both ends
RECURSIVE strip(_)
strip(s) ==
    IF s = <<>> THEN s
    ELSE IF Head(s) \in {" ", TAB} THEN strip(Tail(s))
    ELSE IF s[Len(s)] \in {" ", TAB} THEN strip(SubSeq(s, 1, Len(s) - 1))
    ELSE s

\* line 210
is_stream_line(line) ==
    /\ Contains(BASE_SESSION_NAME, line)
    /\ Contains(DETACHED, line) \/ Contains(ATTACHED, line)

\* lines 212-215: the screen PID of a line, NoPid when the line has no
\* dot or int() raises ValueError
parse_screen_pid(line) ==
    LET text == strip(before_dot(line)) IN
    IF ~Contains(<<".">>, line) \/ text = <<>> \/ ~is_digits(text) THEN NoPid
    ELSE SomePid(int_of(text))

\* lines 338-376 for one screen PID on a ps snapshot
select_target_child_pid(root, lines) ==
    LET dm == collect_descendants_with_depth(root, lines) IN
    IF dm = <<>> THEN NoPid ELSE select_from(build_candidates(dm, lines))

\* lines 209-228: the for loop over the lines of stdout
RECURSIVE collect_targets(_, _)
collect_targets(stdout, lines) ==
    IF stdout = <<>> THEN <<>>
    ELSE LET line == Head(stdout)
             sp   == IF is_stream_line(line) THEN parse_screen_pid(line) ELSE NoPid
             tp   == IF sp = NoPid THEN NoPid ELSE select_target_child_pid(sp[1], lines)
         IN tp \o collect_targets(Tail(stdout), lines)

\* lines 199-242
get_rtsp_stream_pids(status, ss, lines) ==
    LET r == screen_list(status, ss) IN
    IF r.error = "FileNotFoundError" THEN <<>>
    ELSE IF r.returncode # 0 THEN <<>>
    ELSE collect_targets(r.stdout, lines)

\* ------------------------------------------------ stop_file_mover_session
\* What `screen -S rtsp_file_mover -X quit` does: "fails" exits non-zero
\* (check=True raises CalledProcessError), "quits" ends the session,
\* "lingers" is accepted but the session is still listed a second later.
QuitOutcomes == {"fails", "quits", "lingers"}

mover_sessions(ss) == {s \in ss : s.name = FILE_MOVER_SESSION}

\* a variant that reports success whatever the second listing says
mover_gone_assumed(stdout) == TRUE

\* line 178: success = self.file_mover_session not in result.stdout
mover_gone(stdout) == ~in_stdout(FILE_MOVER_SESSION, stdout)

\* lines 160-192: the result, whether the quit request was sent, and the
\* sessions after the call
stop_file_mover_session(status, ss, quit) ==
    LET r1    == screen_list(status, ss)
        after == IF quit = "quits" THEN ss \ mover_sessions(ss) ELSE ss
        r2    == screen_list(status, after)
        call  == [result |-> "False", quit_sent |-> FALSE, quit |-> quit,
                  before |-> ss, sessions |-> ss]
    IN IF r1.error = "FileNotFoundError" THEN call
       ELSE IF ~in_stdout(FILE_MOVER_SESSION, r1.stdout)
       THEN [call EXCEPT !.result = "True"]
       ELSE IF quit = "fails"
       THEN [call EXCEPT !.quit_sent = TRUE]
       ELSE [call EXCEPT !.result = PyBool(mover_gone(r2.stdout)),
                         !.quit_sent = TRUE,
                         !.sessions = after]

\* ======================================================= stop_all_streams
\* the screen session of the stream k and its worker
session_pid(k) == ScreenPid + k - 1
worker_pid(k) == 50300 + k

stream_name(k) == BASE_SESSION_NAME \o str_of(k)

StreamSessions ==
    {[pid |-> session_pid(k), name |-> stream_name(k), status |-> st] :
        k \in 1..MaxBatchPids, st \in {DETACHED, ATTACHED}}

MOVER_SESSION == [pid |-> 50200, name |-> FILE_MOVER_SESSION, status |-> DETACHED]

\* the stream number of a stream session
stream_of(s) == s.pid - ScreenPid + 1

\* the ps snapshot: the worker of a stream session is a child of its
\* screen process, started as `python run.py`
RECURSIVE worker_lines(_, _)
worker_lines(k, ex) ==
    IF k > MaxBatchPids THEN <<>>
    ELSE (IF ex[worker_pid(k)]
          THEN <<[pid |-> worker_pid(k), ppid |-> session_pid(k), cmd |-> CMD_WORKER]>>
          ELSE <<>>)
         \o worker_lines(k + 1, ex)

\* the positions of stop_all_streams at which it runs
Running == {"discover", "find_pids", "terminate", "finalize", "settle", "sweep",
            "pass_end", "cleanup", "remaining", "stop_mover", "stop_mediamtx",
            "signal_daemon", "return"}

\* a variant that runs the file stages whatever was stopped
file_stages_open_always(stopped) == TRUE

\* line 789: if stopped_count > 0
file_stages_open(stopped) == stopped > 0

\* line 763
Discover ==
    /\ opc = "discover"
    /\ sessions' = get_running_sessions(screen_status, screen_sessions)
    /\ opc' = "find_pids"
    /\ UNCHANGED <<stopEnv, rtsp_pids, stopped_count, temp_files_removed,
                   remaining_sessions, tail_done, mover_call, summary, exception,
                   exit_status, stopLoop, fileVars, notFiles>>

\* lines 774-777 and 784-786: the PIDs to stop; with none the function
\* goes on at line 789 with stopped_count = 0, otherwise it calls
\* kill_processes_by_pid(rtsp_pids, grace_period=5)
FindPids ==
    /\ opc = "find_pids"
    /\ rtsp_pids' = get_rtsp_stream_pids(screen_status, screen_sessions,
                                         worker_lines(1, exists))
    /\ IF rtsp_pids' = <<>>
       THEN /\ opc' = IF file_stages_open(stopped_count) THEN "finalize" ELSE "cleanup"
            /\ UNCHANGED <<osVars, killVars>>
       ELSE /\ opc' = "terminate"
            /\ pids' = rtsp_pids'
            /\ grace_period' = StopGracePeriod
            /\ kpc' = "signal"
            /\ exists0' = exists
            /\ UNCHANGED <<exists, behaviour, termDelivered, killDelivered, sec,
                           termSent, killSent, warned, running_pids, remaining_pids,
                           final_running, final_result>>
    /\ UNCHANGED <<stopEnv, sessions, stopped_count, temp_files_removed,
                   remaining_sessions, tail_done, mover_call, summary, exception,
                   exit_status, stopLoop, fileVars, selVars, stabVars, auxVars>>

\* lines 777-789: the result of kill_processes_by_pid decides
\* stopped_count, and stopped_count > 0 opens the file stages
TerminateReturns ==
    /\ opc = "terminate"
    /\ kpc = "done"
    /\ stopped_count' = IF final_result = "True" THEN Len(rtsp_pids) ELSE 0
    /\ opc' = IF file_stages_open(stopped_count') THEN "finalize" ELSE "cleanup"
    /\ UNCHANGED <<stopEnv, sessions, rtsp_pids, temp_files_removed,
                   remaining_sessions, tail_done, mover_call, summary, exception,
                   exit_status, stopLoop, fileVars, notFiles>>

\* lines 736-737, 747: .env.temp1 ... .env.temp6 and .env
EnvTempNames ==
    {".env.temp1", ".env.temp2", ".env.temp3", ".env.temp4", ".env.temp5",
     ".env.temp6", ".env"}

\* lines 728-755 and 820: cleanup_temp_files removes the .env.temp{i} and
\* .env files it finds in script_dir
CleanupTempFiles ==
    /\ opc = "cleanup"
    /\ temp_files_removed' = Cardinality(env_temp_files \cap EnvTempNames)
    /\ env_temp_files' = env_temp_files \ EnvTempNames
    /\ opc' = "remaining"
    /\ UNCHANGED <<screen_status, screen_sessions, sessions_at_start, sessions,
                   rtsp_pids, stopped_count, remaining_sessions, tail_done, mover_call,
                   summary, exception, exit_status, stopLoop, fileVars, notFiles>>

\* line 828
RemainingCheck ==
    /\ opc = "remaining"
    /\ remaining_sessions' = get_running_sessions(screen_status, screen_sessions)
    /\ opc' = "stop_mover"
    /\ UNCHANGED <<stopEnv, sessions, rtsp_pids, stopped_count, temp_files_removed,
                   tail_done, mover_call, summary, exception, exit_status, stopLoop,
                   fileVars, notFiles>>

\* line 839: stop_file_mover_session(), the whole call
StopFileMover ==
    /\ opc = "stop_mover"
    /\ \E quit \in QuitOutcomes :
        LET r == stop_file_mover_session(screen_status, screen_sessions, quit) IN
        /\ mover_call' = <<r>>
        /\ screen_sessions' = r.sessions
    /\ tail_done' = Append(tail_done, "stop_file_mover_session")
    /\ opc' = "stop_mediamtx"
    /\ UNCHANGED <<screen_status, sessions_at_start, env_temp_files, sessions,
                   rtsp_pids, stopped_count, temp_files_removed, remaining_sessions,
                   summary, exception, exit_status, stopLoop, fileVars, notFiles>>

\* line 843: stop_mediamtx() catches every Exception of its commands (a
\* missing pgrep included) and its result is not used
StopMediaMTX ==
    /\ opc = "stop_mediamtx"
    /\ tail_done' = Append(tail_done, "stop_mediamtx")
    /\ opc' = "signal_daemon"
    /\ UNCHANGED <<stopEnv, sessions, rtsp_pids, stopped_count, temp_files_removed,
                   remaining_sessions, mover_call, summary, exception, exit_status,
                   stopLoop, fileVars, notFiles>>

\* lines 847-860: pkill -TERM -f run_daemon.py, inside try/except Exception
SignalDaemon ==
    /\ opc = "signal_daemon"
    /\ tail_done' = Append(tail_done, "pkill run_daemon.py")
    /\ opc' = "return"
    /\ UNCHANGED <<stopEnv, sessions, rtsp_pids, stopped_count, temp_files_removed,
                   remaining_sessions, mover_call, summary, exception, exit_status,
                   stopLoop, fileVars, notFiles>>

\* lines 870-874
ReturnSummary ==
    /\ opc = "return"
    /\ summary' = <<[stopped_sessions   |-> stopped_count,
                     temp_files_removed |-> temp_files_removed,
                     remaining_sessions |-> remaining_sessions.streams]>>
    /\ opc' = "returned"
    /\ UNCHANGED <<stopEnv, sessions, rtsp_pids, stopped_count, temp_files_removed,
                   remaining_sessions, tail_done, mover_call, exception, exit_status,
                   stopLoop, fileVars, notFiles>>

\* Ctrl-C: KeyboardInterrupt is raised where the program stands; no
\* handler of stop_all_streams or of the functions it calls catches it
\* (they catch Exception and its subclasses), so it leaves them all
KeyboardInterrupt ==
    /\ opc \in Running
    /\ exception' = "KeyboardInterrupt"
    /\ opc' = "raised"
    /\ kpc' = IF kpc \in {"signal", "grace", "escalate", "verify"} THEN "abandoned" ELSE kpc
    /\ UNCHANGED <<osVars, pids, grace_period, sec, termSent, killSent, warned,
                   running_pids, remaining_pids, final_running, final_result>>
    /\ UNCHANGED <<stopEnv, sessions, rtsp_pids, stopped_count, temp_files_removed,
                   remaining_sessions, tail_done, mover_call, summary, exit_status,
                   stopLoop, fileVars, selVars, stabVars, auxVars>>

\* The environment: screen ends a stream session when the worker that ran
\* in it is gone.
SessionEnds ==
    /\ opc \in {"terminate", "finalize", "settle", "sweep", "pass_end", "cleanup",
                "remaining"}
    /\ \E s \in screen_sessions :
        /\ s.name # FILE_MOVER_SESSION
        /\ ~exists[worker_pid(stream_of(s))]
        /\ screen_sessions' = screen_sessions \ {s}
    /\ UNCHANGED <<screen_status, sessions_at_start, env_temp_files, stopResult,
                   stopLoop, opc, fileVars, notFiles>>

\* a variant that reports success whenever a summary came back
exit_status_always_zero(pos, remaining, exc) ==
    IF pos = "returned" THEN 0 ELSE 1

\* lines 910-925: main maps the summary, or the exception that left
\* stop_all_streams (KeyboardInterrupt or an Exception), to the status
exit_status_for(pos, remaining, exc) ==
    IF pos = "returned" THEN (IF remaining = 0 THEN 0 ELSE 1)
    ELSE 1

MainExit ==
    /\ opc \in {"returned", "raised"}
    /\ exit_status = <<>>
    /\ exit_status' = <<exit_status_for(opc, remaining_sessions.streams, exception)>>
    /\ UNCHANGED <<stopEnv, sessions, rtsp_pids, stopped_count, temp_files_removed,
                   remaining_sessions, tail_done, mover_call, summary, exception, opc,
                   stopLoop, fileVars, notFiles>>

\* ---- the states at the start
\* every file a temp directory can hold
\* The recorders write and hold open the prefixed recordings only.
conditions_of(name) ==
    IF glob_temp(name, EXT_MP4) \/ glob_temp(name, EXT_SRT) THEN Conditions
    ELSE IF startswith(name, TEMP_PREFIX) THEN {"ready"}
    ELSE {"ready", "locked"}

Catalogue ==
    {c \in [dir : {<<TEMP_DEFAULT>>, <<TEMP_OTHER>>}, name : Names, cond : Conditions] :
        c.cond \in conditions_of(c.name)}

NoFile == [dir |-> <<>>, name |-> <<>>, cond |-> "none"]

\* no two files of the set have the same path
distinct_paths(S) == \A a, b \in S : (a.dir = b.dir /\ a.name = b.name) => a = b

\* the files of the set, numbered
numbered(S) ==
    LET id_of == CHOOSE b \in [S -> 1..Cardinality(S)] :
                     \A x, y \in S : b[x] = b[y] => x = y
    IN {[id |-> id_of[c], dir |-> c.dir, name |-> c.name, cond |-> c.cond] : c \in S}

FileCallIdle ==
    /\ rename_count = [k \in FileIds |-> 0]
    /\ move_count = [k \in FileIds |-> 0]
    /\ fcall = [fn |-> "none", stream |-> 0, pass |-> 0, counts |-> rename_count]
    /\ fs_before = fs
    /\ examined = {}
    /\ fret = <<>>

\* any configuration of the streams and any files in the temp directories
FilesAny ==
    /\ temp_output_path \in [Streams -> TempDirs]
    /\ final_output_path \in [Streams -> FinalRoots]
    /\ lsof_installed \in BOOLEAN
    /\ \E picks \in [FileIds -> Catalogue \cup {NoFile}] :
          /\ distinct_paths(Range(picks) \ {NoFile})
          /\ fs = numbered(Range(picks) \ {NoFile})
    /\ FileCallIdle

\* The first stream has its own temp directory and the others share one;
\* the final root of the first stream may be offline.  Either there is no
\* file, or a recording in progress of the first stream and a finished
\* one of the others.
FilesFew ==
    /\ temp_output_path = [i \in Streams |-> IF i = 1 THEN TEMP_DEFAULT ELSE TEMP_OTHER]
    /\ \E root \in FinalRoots :
          final_output_path = [i \in Streams |-> IF i = 1 THEN root ELSE FINAL_DEFAULT]
    /\ lsof_installed = TRUE
    /\ \E S \in {{}, {[dir |-> <<TEMP_DEFAULT>>, name |-> NAME_TEMP_MP4, cond |-> "ready"],
                      [dir |-> <<TEMP_OTHER>>, name |-> NAME_MP4, cond |-> "ready"]}} :
          fs = numbered(S)
    /\ FileCallIdle

StopLoopInit ==
    /\ stream_i = 1
    /\ pass_num = 1
    /\ moved_count = 0
    /\ total_processed = 0
    /\ final_sweep_max = 0

StopResultInit ==
    /\ sessions = ZERO_COUNTS
    /\ rtsp_pids = <<>>
    /\ stopped_count = 0
    /\ temp_files_removed = 0
    /\ remaining_sessions = ZERO_COUNTS
    /\ tail_done = <<>>
    /\ mover_call = <<>>
    /\ summary = <<>>
    /\ exception = NONE
    /\ exit_status = <<>>

\* at most one session per stream; a worker runs only in a session; an
\* absent screen has no session
SessionsInit ==
    /\ screen_status \in {"works", "broken", "absent"}
    /\ screen_sessions \in SUBSET (StreamSessions \cup {MOVER_SESSION})
    /\ \A s, t \in screen_sessions : s.pid = t.pid => s = t
    /\ \A s \in screen_sessions : s.status = ATTACHED => s.pid = session_pid(1)
    /\ screen_status = "absent" => screen_sessions = {}
    /\ sessions_at_start = screen_sessions
    /\ behaviour \in [BatchPids -> Behaviours]
    /\ exists \in [BatchPids -> BOOLEAN]
    /\ \A k \in 1..MaxBatchPids :
          /\ exists[worker_pid(k)] => \E s \in screen_sessions : s.pid = session_pid(k)
          /\ ~exists[worker_pid(k)] => behaviour[worker_pid(k)] = "exits"
    /\ exists0 = exists
    /\ termDelivered = {}
    /\ killDelivered = {}

NextFiles ==
    \/ FinalizeStream
    \/ SettleWait
    \/ SweepStream
    \/ PassEnd

NextStop ==
    \/ Discover
    \/ FindPids
    \/ SignalPhase
    \/ GraceRound
    \/ EscalationPhase
    \/ VerifyPhase
    \/ ProcessExits
    \/ TerminateReturns
    \/ FinalizeStream
    \/ SettleWait
    \/ SweepStream
    \/ PassEnd
    \/ CleanupTempFiles
    \/ RemainingCheck
    \/ StopFileMover
    \/ StopMediaMTX
    \/ SignalDaemon
    \/ ReturnSummary
    \/ KeyboardInterrupt
    \/ SessionEnds
    \/ MainExit

\* ======================================================= specifications
\* A component that a specification does not run stays as constructed.
OSIdle ==
    /\ behaviour = [p \in BatchPids |-> "exits"]
    /\ exists = [p \in BatchPids |-> FALSE]
    /\ exists0 = exists
    /\ termDelivered = {}
    /\ killDelivered = {}

KillIdle ==
    /\ pids = <<>>
    /\ grace_period = 0
    /\ kpc = "idle"
    /\ sec = 1
    /\ termSent = {}
    /\ killSent = {}
    /\ warned = {}
    /\ running_pids = <<>>
    /\ remaining_pids = <<>>
    /\ final_running = <<>>
    /\ final_result = NONE

SelIdle ==
    /\ spc = "idle"
    /\ screen_pid = ScreenPid
    /\ ps_lines = <<>>
    /\ depth_map = <<>>
    /\ candidates = <<>>
    /\ target_pid = NoPid

StabIdle ==
    /\ fpc = "idle"
    /\ file_present = FALSE
    /\ check_count = 0
    /\ max_wait = 0
    /\ prev_size = -1
    /\ same_count = 0
    /\ samples = <<>>
    /\ stable_result = NONE

FilesIdle ==
    /\ temp_output_path = [i \in Streams |-> TEMP_DEFAULT]
    /\ final_output_path = [i \in Streams |-> FINAL_DEFAULT]
    /\ lsof_installed = TRUE
    /\ fs = {}
    /\ FileCallIdle

StopIdle ==
    /\ opc = "idle"
    /\ screen_status = "works"
    /\ screen_sessions = {}
    /\ sessions_at_start = {}
    /\ env_temp_files = {}
    /\ StopResultInit
    /\ StopLoopInit

CfgIdle ==
    /\ cpc = "idle"
    /\ env_primary = <<>>
    /\ env_secondary = <<>>
    /\ config = <<>>
    /\ resolved = <<>>

BfsIdle ==
    /\ bpc = "idle"
    /\ bfs_root = ScreenPid
    /\ ppid_to_children = <<>>
    /\ bfs_queue = <<>>
    /\ bfs_seen = {}
    /\ bfs_depth_map = <<>>
    /\ enqueued = <<>>

ScoreIdle ==
    /\ scpc = "idle"
    /\ cmdline = <<>>
    /\ score = 0

DaemonIdle ==
    /\ dpc = "idle"
    /\ handler_frames = <<>>
    /\ stop_script = "present"
    /\ stop_children = <<>>
    /\ stop_attempts = 0
    /\ signals = <<>>
    /\ daemon_exit = <<>>

AuxIdle == CfgIdle /\ BfsIdle /\ ScoreIdle /\ DaemonIdle

InitKill == OSInit /\ KillInit /\ SelIdle /\ StabIdle /\ FilesIdle /\ StopIdle /\ AuxIdle

SpecKill == InitKill /\ [][NextKill]_vars

\* The call is one thread running straight-line code and bounded loops:
\* whenever it has a next step it takes it.  Nothing is assumed of the
\* environment (a process may never exit).
KillCallStep == SignalPhase \/ GraceRound \/ EscalationPhase \/ VerifyPhase

SpecKillFair == SpecKill /\ WF_vars(KillCallStep)

InitSelect == OSIdle /\ KillIdle /\ SelInit /\ StabIdle /\ FilesIdle /\ StopIdle /\ AuxIdle

SpecSelect == InitSelect /\ [][NextSelect]_vars

InitStable == OSIdle /\ KillIdle /\ SelIdle /\ StabInit /\ FilesIdle /\ StopIdle /\ AuxIdle

SpecStable == InitStable /\ [][NextStable]_vars

\* the function is one thread: a sleep ends and the next iteration runs
SpecStableFair == SpecStable /\ WF_vars(NextStable)

\* The file stages alone: stop_all_streams stands at line 789 after
\* kill_processes_by_pid stopped the worker of the first stream, whose
\* session has ended; the files and the configuration are arbitrary.
WorkerStopped ==
    /\ behaviour = [p \in BatchPids |-> "exits"]
    /\ exists = [p \in BatchPids |-> FALSE]
    /\ exists0 = [p \in BatchPids |-> p = worker_pid(1)]
    /\ termDelivered = {worker_pid(1)}
    /\ killDelivered = {}
    /\ pids = <<worker_pid(1)>>
    /\ grace_period = StopGracePeriod
    /\ kpc = "done"
    /\ sec = 1
    /\ termSent = {worker_pid(1)}
    /\ killSent = {}
    /\ warned = {}
    /\ running_pids = <<>>
    /\ remaining_pids = <<>>
    /\ final_running = <<>>
    /\ final_result = "True"

FileStagesEntered ==
    /\ opc = "finalize"
    /\ screen_status = "works"
    /\ screen_sessions = {}
    /\ sessions_at_start =
          {[pid |-> session_pid(1), name |-> stream_name(1), status |-> DETACHED]}
    /\ env_temp_files = {}
    /\ sessions = [streams |-> 1, mover |-> 0, total |-> 1]
    /\ rtsp_pids = <<worker_pid(1)>>
    /\ stopped_count = 1
    /\ temp_files_removed = 0
    /\ remaining_sessions = ZERO_COUNTS
    /\ tail_done = <<>>
    /\ mover_call = <<>>
    /\ summary = <<>>
    /\ exception = NONE
    /\ exit_status = <<>>
    /\ StopLoopInit

InitFiles ==
    WorkerStopped /\ SelIdle /\ StabIdle /\ FilesAny /\ FileStagesEntered /\ AuxIdle

SpecFiles == InitFiles /\ [][NextFiles]_vars

\* The whole run of main: stop_all_streams from its first line.
InitStop ==
    /\ SessionsInit
    /\ KillIdle
    /\ SelIdle
    /\ StabIdle
    /\ FilesFew
    /\ opc = "discover"
    /\ env_temp_files = {".env.temp1", ".env"}
    /\ StopResultInit
    /\ StopLoopInit
    /\ AuxIdle

SpecStop == InitStop /\ [][NextStop]_vars

\* ======================================================= get_stream_config
\* The text of the environment files is kept as characters, so that
\* startswith, split and strip are computed.
KEY_TEMP  == <<"T","E","M","P","_","O","U","T","P","U","T","_","P","A","T","H">>
KEY_FINAL == <<"F","I","N","A","L","_","O","U","T","P","U","T","_","P","A","T","H">>

\* line 495: temp_output_path = "./output/temp/"
DEFAULT_TEMP_OUTPUT_PATH  == <<".","/","o","u","t","p","u","t","/","t","e","m","p","/">>
\* line 496: final_output_path = "/mnt/nas/cam"
DEFAULT_FINAL_OUTPUT_PATH == <<"/","m","n","t","/","n","a","s","/","c","a","m">>

\* `TEMP_OUTPUT_PATH=/data/temp`
LINE_TEMP == <<"T","E","M","P","_","O","U","T","P","U","T","_","P","A","T","H","=","/","d","a","t","a","/","t","e","m","p">>
\* `TEMP_OUTPUT_PATH=/data/temp2`
LINE_TEMP2 == <<"T","E","M","P","_","O","U","T","P","U","T","_","P","A","T","H","=","/","d","a","t","a","/","t","e","m","p","2">>
\* `TEMP_OUTPUT_PATH=`: the key with an empty value
LINE_TEMP_EMPTY == <<"T","E","M","P","_","O","U","T","P","U","T","_","P","A","T","H","=">>
\* `TEMP_OUTPUT_PATH= /data/alt `: white space around the value
LINE_TEMP_SPACED == <<"T","E","M","P","_","O","U","T","P","U","T","_","P","A","T","H","="," ","/","d","a","t","a","/","a","l","t"," ">>
\* `#TEMP_OUTPUT_PATH=/data/off`: commented out
LINE_TEMP_COMMENT == <<"#","T","E","M","P","_","O","U","T","P","U","T","_","P","A","T","H","=","/","d","a","t","a","/","o","f","f">>
\* `FINAL_OUTPUT_PATH=/data/final`
LINE_FINAL == <<"F","I","N","A","L","_","O","U","T","P","U","T","_","P","A","T","H","=","/","d","a","t","a","/","f","i","n","a","l">>
\* `FINAL_OUTPUT_PATH=/data/a=b`: an equals sign in the value
LINE_FINAL_EQ == <<"F","I","N","A","L","_","O","U","T","P","U","T","_","P","A","T","H","=","/","d","a","t","a","/","a","=","b">>
\* `FINAL_OUTPUT_PATH=  `: only white space after the key
LINE_FINAL_BLANK == <<"F","I","N","A","L","_","O","U","T","P","U","T","_","P","A","T","H","="," "," ">>
EnvLines == {LINE_TEMP, LINE_TEMP2, LINE_TEMP_EMPTY, LINE_TEMP_SPACED,
             LINE_TEMP_COMMENT, LINE_FINAL, LINE_FINAL_EQ, LINE_FINAL_BLANK}

\* An environment file is absent, present with its lines, or present but
\* unreadable (open raises PermissionError).
ENV_ABSENT == [state |-> "absent", lines |-> <<>>]
ENV_UNREADABLE == [state |-> "unreadable", lines |-> <<>>]
EnvFiles ==
    {ENV_ABSENT, ENV_UNREADABLE}
        \cup {[state |-> "present", lines |-> ls] : ls \in SeqsUpTo(EnvLines, MaxEnvLines)}

\* Path.exists()
env_exists(file) == file.state # "absent"

\* line.split('=', 1)[1]: the text after the first equals sign
RECURSIVE after_equals(_)
after_equals(line) ==
    IF line = <<>> THEN <<>>
    ELSE IF Head(line) = "=" THEN Tail(line)
    ELSE after_equals(Tail(line))

\* line 478: line.startswith(f"{key}=")
key_line(key, line) == startswith(line, key \o <<"=">>)

\* a variant in which the last matching line wins
RECURSIVE env_lookup_last(_, _)
env_lookup_last(key, lines) ==
    IF lines = <<>> THEN <<>>
    ELSE IF key_line(key, lines[Len(lines)])
    THEN <<strip(after_equals(lines[Len(lines)]))>>
    ELSE env_lookup_last(key, SubSeq(lines, 1, Len(lines) - 1))

\* lines 477-481: the for loop returns at the first matching line;
\* <<value>> for a value, <<>> for None
RECURSIVE env_lookup(_, _)
env_lookup(key, lines) ==
    IF lines = <<>> THEN <<>>
    ELSE IF key_line(key, Head(lines))
    THEN <<strip(after_equals(Head(lines)))>>
    ELSE env_lookup(key, Tail(lines))

\* lines 472-486: FileNotFoundError and every other exception of open or
\* of the read are caught and None is returned
get_env_value(key, file) ==
    IF file.state # "present" THEN <<>> ELSE env_lookup(key, file.lines)

\* lines 503, 506: `if temp_path:` is false for None and for ''
truthy(value) == value # <<>> /\ value[1] # <<>>

\* lines 488-520
get_stream_config(primary, secondary) ==
    LET env_file == IF env_exists(primary) THEN "primary" ELSE "secondary"
        file     == IF env_file = "primary" THEN primary ELSE secondary
        temp_path  == get_env_value(KEY_TEMP, file)
        final_path == get_env_value(KEY_FINAL, file)
    IN [env_file |-> env_file,
        temp_output_path |->
            IF env_exists(file) /\ truthy(temp_path) THEN temp_path[1]
            ELSE DEFAULT_TEMP_OUTPUT_PATH,
        final_output_path |->
            IF env_exists(file) /\ truthy(final_path) THEN final_path[1]
            ELSE DEFAULT_FINAL_OUTPUT_PATH]

CfgInit ==
    /\ cpc = "call"
    /\ env_primary \in EnvFiles
    /\ env_secondary \in EnvFiles
    /\ config = <<>>
    /\ resolved = <<>>

\* the whole call
GetStreamConfig ==
    /\ cpc = "call"
    /\ config' = <<get_stream_config(env_primary, env_secondary)>>
    /\ cpc' = "returned"
    /\ UNCHANGED <<env_primary, env_secondary, resolved>>
    /\ UNCHANGED notCfg

NextConfig == GetStreamConfig

InitConfig ==
    /\ OSIdle /\ KillIdle /\ SelIdle /\ StabIdle /\ FilesIdle /\ StopIdle /\ DaemonIdle
    /\ CfgInit /\ BfsIdle /\ ScoreIdle

SpecConfig == InitConfig /\ [][NextConfig]_vars

\* ------------------- get_stream_config in one run of stop_all_streams
\* stop_all_streams calls get_stream_config(i) for a stream in the
\* finalization loop (line 794) and again in every sweep pass (line 809).
\* The environment files are on disk and anyone may write them meanwhile.
EnvFilesFew ==
    {ENV_ABSENT,
     [state |-> "present", lines |-> <<LINE_TEMP>>],
     [state |-> "present", lines |-> <<LINE_TEMP2, LINE_FINAL>>]}

paths_of(c) == [temp |-> c.temp_output_path, final |-> c.final_output_path]

ResolveInit ==
    /\ cpc = "resolve_finalize"
    /\ env_primary \in EnvFilesFew
    /\ env_secondary \in EnvFilesFew
    /\ config = <<>>
    /\ resolved = <<>>

\* line 794: config = self.file_processor.get_stream_config(i), followed
\* by process_temp_files(config); FINAL_SWEEP_SECONDS may allow no pass
ResolveForFinalize ==
    /\ cpc = "resolve_finalize"
    /\ config' = <<get_stream_config(env_primary, env_secondary)>>
    /\ resolved' = Append(resolved, paths_of(config'[1]))
    /\ cpc' \in {"resolve_sweep", "run_done"}
    /\ UNCHANGED <<env_primary, env_secondary>>
    /\ UNCHANGED notCfg

\* line 809: config = self.file_processor.get_stream_config(i), followed
\* by final_sweep_move(config), once per pass; the pass loop ends after a
\* pass without moves or after the last pass
ResolveForSweep ==
    /\ cpc = "resolve_sweep"
    /\ Len(resolved) <= MaxSweepPasses
    /\ config' = <<get_stream_config(env_primary, env_secondary)>>
    /\ resolved' = Append(resolved, paths_of(config'[1]))
    /\ cpc' \in IF Len(resolved') > MaxSweepPasses THEN {"run_done"}
                ELSE {"resolve_sweep", "run_done"}
    /\ UNCHANGED <<env_primary, env_secondary>>
    /\ UNCHANGED notCfg

\* The environment: an environment file of the stream is written, created
\* or removed while the run is in progress.
EnvFileChanges ==
    /\ cpc \in {"resolve_finalize", "resolve_sweep"}
    /\ \/ env_primary' \in EnvFilesFew \ {env_primary} /\ UNCHANGED env_secondary
       \/ env_secondary' \in EnvFilesFew \ {env_secondary} /\ UNCHANGED env_primary
    /\ UNCHANGED <<cpc, config, resolved>>
    /\ UNCHANGED notCfg

NextResolve == ResolveForFinalize \/ ResolveForSweep \/ EnvFileChanges

InitResolve ==
    /\ OSIdle /\ KillIdle /\ SelIdle /\ StabIdle /\ FilesIdle /\ StopIdle /\ DaemonIdle
    /\ ResolveInit /\ BfsIdle /\ ScoreIdle

SpecResolve == InitResolve /\ [][NextResolve]_vars

\* --------------------- get_stream_config for the streams of one run
\* get_stream_config(i) reads .env.stream{i}: each stream has its own pair
\* of environment files, and the stream number is used for nothing else
\* than the file name and the stream_id field.
StreamsInit ==
    /\ cpc = "streams"
    /\ env_primary \in [Streams -> EnvFilesFew]
    /\ env_secondary \in [Streams -> EnvFilesFew]
    /\ config = <<>>
    /\ resolved = <<>>

\* lines 793-794: `for i in range(1, num_streams + 1)`, one iteration
ResolveStream ==
    /\ cpc = "streams"
    /\ LET i == Len(resolved) + 1 IN
         /\ i \in Streams
         /\ config' = <<get_stream_config(env_primary[i], env_secondary[i])>>
         /\ resolved' = Append(resolved, paths_of(config'[1]))
         /\ cpc' = IF i = NumStreams THEN "streams_done" ELSE "streams"
    /\ UNCHANGED <<env_primary, env_secondary>>
    /\ UNCHANGED notCfg

NextStreams == ResolveStream

InitStreams ==
    /\ OSIdle /\ KillIdle /\ SelIdle /\ StabIdle /\ FilesIdle /\ StopIdle /\ DaemonIdle
    /\ StreamsInit /\ BfsIdle /\ ScoreIdle

SpecStreams == InitStreams /\ [][NextStreams]_vars

\* ============================================== score_cmdline, the call
\* The words a command line is made of: the markers themselves, a word
\* without any marker and words that only begin like a marker.
W_PYTHON      == <<"p","y","t","h","o","n">>
W_PYTHON3     == <<"p","y","t","h","o","n","3">>
W_RUN_PY      == <<"r","u","n",".","p","y">>
W_UV          == <<"u","v">>
W_BASH        == <<"b","a","s","h">>
W_SH          == <<"s","h">>
W_SCREEN      == <<"s","c","r","e","e","n">>
W_PSTREE      == <<"p","s","t","r","e","e">>
W_PS          == <<"p","s">>
W_FFMPEG      == <<"f","f","m","p","e","g">>
W_SCREENSHOTS == <<"s","c","r","e","e","n","s","h","o","t","s">>
W_UVICORN     == <<"u","v","i","c","o","r","n">>
CmdWords == {W_PYTHON, W_PYTHON3, W_RUN_PY, W_UV, W_BASH, W_SH,
             W_SCREEN, W_PSTREE, W_PS, W_FFMPEG, W_SCREENSHOTS, W_UVICORN}

\* ' '.join(words)
RECURSIVE join_words(_)
join_words(ws) ==
    IF ws = <<>> THEN <<>>
    ELSE IF Len(ws) = 1 THEN ws[1]
    ELSE ws[1] \o <<" ">> \o join_words(Tail(ws))

\* the command lines of up to MaxWords words
CmdLines == {join_words(ws) : ws \in SeqsUpTo(CmdWords, MaxWords)}

ScoreInit ==
    /\ scpc = "call"
    /\ cmdline \in CmdLines
    /\ score = 0

\* lines 344-356, the whole function
ScoreCmdline ==
    /\ scpc = "call"
    /\ score' = score_cmdline(cmdline)
    /\ scpc' = "returned"
    /\ UNCHANGED cmdline
    /\ UNCHANGED notScore

NextScore == ScoreCmdline

InitScore ==
    /\ OSIdle /\ KillIdle /\ SelIdle /\ StabIdle /\ FilesIdle /\ StopIdle /\ DaemonIdle
    /\ CfgIdle /\ BfsIdle /\ ScoreInit

SpecScore == InitScore /\ [][NextScore]_vars

\* ================================ _collect_descendants_with_depth, the call
\* The argument ppid_to_children is any dict of lists: a PID may be its own
\* child, a child of its descendant or of several parents, the root may be
\* listed as a child, and a list may name a PID twice.  A key that is
\* missing from the dict has the empty list (`.get(current, [])`).
TreeProcs == {50300 + i : i \in 1..MaxTreeProcs}
TreeNodes == {ScreenPid} \cup TreeProcs

ChildrenMaps == [TreeNodes -> SeqsUpTo(TreeNodes, MaxChildren)]

\* lines 317-319
BfsInit ==
    /\ bpc = "loop"
    /\ bfs_root = ScreenPid
    /\ ppid_to_children \in ChildrenMaps
    /\ bfs_queue = << <<ScreenPid, 0>> >>
    /\ bfs_seen = {ScreenPid}
    /\ bfs_depth_map = <<>>
    /\ enqueued = <<ScreenPid>>

\* lines 320-327: one iteration of `while queue`: pop the head and run the
\* for loop over its children
BfsStep ==
    /\ bpc = "loop"
    /\ bfs_queue # <<>>
    /\ LET current == Head(bfs_queue)[1]
           depth   == Head(bfs_queue)[2]
           st      == visit_children(ppid_to_children[current], depth,
                          [queue     |-> Tail(bfs_queue),
                           seen      |-> bfs_seen,
                           depth_map |-> bfs_depth_map])
       IN /\ bfs_queue' = st.queue
          /\ bfs_seen' = st.seen
          /\ bfs_depth_map' = st.depth_map
          /\ enqueued' = enqueued \o
                 [i \in 1..(Len(st.queue) - Len(bfs_queue) + 1) |->
                     st.queue[Len(bfs_queue) - 1 + i][1]]
    /\ UNCHANGED <<bpc, bfs_root, ppid_to_children>>
    /\ UNCHANGED notBfs

\* line 328: the queue is empty, return depth_map
BfsReturn ==
    /\ bpc = "loop"
    /\ bfs_queue = <<>>
    /\ bpc' = "returned"
    /\ UNCHANGED <<bfs_root, ppid_to_children, bfs_queue, bfs_seen, bfs_depth_map, enqueued>>
    /\ UNCHANGED notBfs

NextBFS == BfsStep \/ BfsReturn

InitBFS ==
    /\ OSIdle /\ KillIdle /\ SelIdle /\ StabIdle /\ FilesIdle /\ StopIdle /\ DaemonIdle
    /\ CfgIdle /\ BfsInit /\ ScoreIdle

SpecBFS == InitBFS /\ [][NextBFS]_vars

\* the function is straight-line code in one thread: it takes its next step
SpecBFSFair == SpecBFS /\ WF_vars(NextBFS)

\* ========================================================== run_daemon.py
\* main registers signal_handler for SIGTERM and SIGINT, runs the start
\* script and waits in signal.pause().  Python runs a handler in the main
\* thread between two bytecodes, also between two bytecodes of a handler
\* that is already running: handlers nest, and main resumes only when the
\* outermost one returns.  signal_handler never returns: it ends in
\* sys.exit(0).
Signals == {"SIGTERM", "SIGINT"}

signum(sig) == IF sig = "SIGTERM" THEN 15 ELSE 2

DaemonInit ==
    /\ dpc = "register"
    /\ handler_frames = <<>>
    /\ stop_script \in {"present", "missing"}
    /\ stop_children = <<>>
    /\ stop_attempts = 0
    /\ signals = <<>>
    /\ daemon_exit = <<>>

TopFrame == handler_frames[Len(handler_frames)]

InHandler == handler_frames # <<>>

SetTop(f) == [handler_frames EXCEPT ![Len(handler_frames)] = f]

\* the stop-script processes that are running
RunningChildren == {i \in 1..Len(stop_children) : stop_children[i] = "running"}

\* lines 57-58: signal.signal(SIGTERM, signal_handler), then SIGINT
RegisterHandlers ==
    /\ dpc = "register"
    /\ dpc' = "start"
    /\ UNCHANGED <<handler_frames, stop_script, stop_children, stop_attempts,
                   signals, daemon_exit>>
    /\ UNCHANGED notDaemon

\* a signal before line 57: the default disposition ends the process
DefaultDisposition ==
    \E sig \in Signals :
        /\ dpc = "register"
        /\ Len(signals) < MaxSignals
        /\ signals' = Append(signals, sig)
        /\ dpc' = "exited"
        /\ daemon_exit' = <<128 + signum(sig)>>
        /\ UNCHANGED <<handler_frames, stop_script, stop_children, stop_attempts>>
        /\ UNCHANGED notDaemon

\* a signal once the handlers are registered: signal_handler is called, on
\* top of whatever the main thread is doing (lines 29-36)
Signal ==
    \E sig \in Signals :
        /\ dpc \notin {"idle", "register", "exited"}
        /\ Len(signals) < MaxSignals
        /\ signals' = Append(signals, sig)
        /\ handler_frames' =
               Append(handler_frames, [signum |-> sig, at |-> "called", child |-> 0])
        /\ UNCHANGED <<dpc, stop_script, stop_children, stop_attempts, daemon_exit>>
        /\ UNCHANGED notDaemon

\* line 39: subprocess.run([STOP_SCRIPT], timeout=180) starts the script, or
\* raises FileNotFoundError, which line 40 catches
RunStopScript ==
    /\ InHandler
    /\ TopFrame.at = "called"
    /\ stop_attempts' = stop_attempts + 1
    /\ IF stop_script = "present"
       THEN /\ stop_children' = Append(stop_children, "running")
            /\ handler_frames' =
                   SetTop([TopFrame EXCEPT !.at = "waiting",
                                           !.child = Len(stop_children) + 1])
       ELSE /\ stop_children' = stop_children
            /\ handler_frames' = SetTop([TopFrame EXCEPT !.at = "finishing"])
    /\ UNCHANGED <<dpc, stop_script, signals, daemon_exit>>
    /\ UNCHANGED notDaemon

\* a stop script ends by itself, with status 0 or not
StopScriptExits ==
    \E i \in RunningChildren, outcome \in {"ok", "failed"} :
        /\ stop_children' = [stop_children EXCEPT ![i] = outcome]
        /\ UNCHANGED <<dpc, handler_frames, stop_script, stop_attempts, signals,
                       daemon_exit>>
        /\ UNCHANGED notDaemon

\* line 39: subprocess.run returns when its child has ended; the return
\* code is not looked at
WaitReturns ==
    /\ InHandler
    /\ TopFrame.at = "waiting"
    /\ TopFrame.child \notin RunningChildren
    /\ handler_frames' = SetTop([TopFrame EXCEPT !.at = "finishing"])
    /\ UNCHANGED <<dpc, stop_script, stop_children, stop_attempts, signals,
                   daemon_exit>>
    /\ UNCHANGED notDaemon

\* line 39: after 180 seconds subprocess.run kills its child and raises
\* TimeoutExpired, which line 40 catches
WaitTimesOut ==
    /\ InHandler
    /\ TopFrame.at = "waiting"
    /\ TopFrame.child \in RunningChildren
    /\ stop_children' = [stop_children EXCEPT ![TopFrame.child] = "killed"]
    /\ handler_frames' = SetTop([TopFrame EXCEPT !.at = "finishing"])
    /\ UNCHANGED <<dpc, stop_script, stop_attempts, signals, daemon_exit>>
    /\ UNCHANGED notDaemon

\* the children of the handlers that SystemExit unwinds: subprocess.run
\* kills its child on any exception that passes through it
killed_by_unwinding(children) ==
    [i \in 1..Len(children) |->
        IF children[i] = "running" THEN "killed" ELSE children[i]]

\* line 50: sys.exit(0).  SystemExit is no Exception: neither line 40 of an
\* outer handler nor lines 83 and 86 of main catch it
HandlerExits ==
    /\ InHandler
    /\ TopFrame.at = "finishing"
    /\ handler_frames' = <<>>
    /\ stop_children' = killed_by_unwinding(stop_children)
    /\ dpc' = "exited"
    /\ daemon_exit' = <<0>>
    /\ UNCHANGED <<stop_script, stop_attempts, signals>>
    /\ UNCHANGED notDaemon

\* lines 63-68: the start script has run and communicate() has returned, or
\* Popen has raised
StartScriptReturns ==
    \E outcome \in {"ok", "failed", "missing"} :
        /\ dpc = "start"
        /\ ~InHandler
        /\ dpc' = IF outcome = "ok" THEN "started" ELSE "start_failed"
        /\ UNCHANGED <<handler_frames, stop_script, stop_children, stop_attempts,
                       signals, daemon_exit>>
        /\ UNCHANGED notDaemon

\* lines 69-73 and 90-94: the log lines, then while True: signal.pause()
EnterPause ==
    /\ dpc = "started"
    /\ ~InHandler
    /\ dpc' = "pause"
    /\ UNCHANGED <<handler_frames, stop_script, stop_children, stop_attempts,
                   signals, daemon_exit>>
    /\ UNCHANGED notDaemon

\* lines 75-81, 84-85, 87-88: the log lines, then sys.exit(1)
ExitOnStartFailure ==
    /\ dpc = "start_failed"
    /\ ~InHandler
    /\ dpc' = "exited"
    /\ daemon_exit' = <<1>>
    /\ UNCHANGED <<handler_frames, stop_script, stop_children, stop_attempts,
                   signals>>
    /\ UNCHANGED notDaemon

\* what the daemon's one thread does by itself
DaemonStep ==
    \/ RegisterHandlers
    \/ RunStopScript
    \/ WaitReturns
    \/ WaitTimesOut
    \/ HandlerExits
    \/ StartScriptReturns
    \/ EnterPause
    \/ ExitOnStartFailure

NextDaemon ==
    \/ DaemonStep
    \/ DefaultDisposition
    \/ Signal
    \/ StopScriptExits

InitDaemon ==
    /\ OSIdle /\ KillIdle /\ SelIdle /\ StabIdle /\ FilesIdle /\ StopIdle
    /\ CfgIdle /\ BfsIdle /\ ScoreIdle /\ DaemonInit

SpecDaemon == InitDaemon /\ [][NextDaemon]_vars

\* the daemon is one thread of straight-line code: it takes its next step,
\* and the wait of line 39 ends after 180 seconds at the latest
SpecDaemonFair == SpecDaemon /\ WF_vars(DaemonStep)

\* =============================================== kill_processes_by_pid
BatchSet == Range(pids)

\* C1: kill_processes_by_pid returns True if and only if none of the PIDs
\* of the batch exists when the call returns.
C1_TrueIffNoneExists ==
    kpc = "done" =>
        (final_result = "True" <=> \A p \in BatchSet : ~exists[p])

\* C2: every PID of the batch that still exists when the call returns was
\* sent both SIGTERM and SIGKILL during the call.
C2_BothPhasesAttempted ==
    kpc = "done" =>
        \A p \in BatchSet : exists[p] => p \in termSent /\ p \in killSent

\* C3: a PID whose signals are rejected with permission denied is logged
\* as a warning, is counted in the remaining set that decides escalation
\* and in the final result, and does not stop the other PIDs of the batch
\* from being signalled.
C3_DeniedCountsAsRemaining ==
    kpc = "done" =>
        \A p \in BatchSet :
            exists0[p] /\ behaviour[p] = "denied" =>
                /\ p \in warned
                /\ p \in Range(remaining_pids)
                /\ p \in Range(final_running)
                /\ final_result = "False"
                /\ termSent = BatchSet

\* C4: a PID that was already gone is a success for that PID (never in
\* the remaining or final list, never sent SIGKILL); a batch whose PIDs
\* are all gone, or an empty batch, returns True without any SIGKILL, and
\* the empty batch sends no signal at all.
C4_VanishedIsSuccess ==
    kpc = "done" =>
        /\ \A p \in BatchSet :
              ~exists0[p] => /\ p \notin killSent
                             /\ p \notin Range(remaining_pids)
                             /\ p \notin Range(final_running)
        /\ (\A p \in BatchSet : ~exists0[p]) =>
              final_result = "True" /\ killSent = {}
        /\ pids = <<>> => termSent = {} /\ killSent = {}

\* a batch of two different PIDs, both gone before the call, has returned
C4_Witness ==
    /\ kpc = "done"
    /\ Cardinality(BatchSet) = 2
    /\ \A p \in BatchSet : ~exists0[p]
    /\ termSent = BatchSet
    /\ final_result = "True"

\* ============================================ _select_target_child_pid
\* The descendants of screen_pid by the parent relation of the snapshot,
\* computed as a fixpoint over sets (no queue, no order).
RECURSIVE Closure(_)
Closure(S) ==
    LET N == S \cup {l.pid : l \in {x \in Range(ps_lines) : x.ppid \in S}}
    IN IF N = S THEN S ELSE Closure(N)

Descendants == Closure({screen_pid}) \ {screen_pid}

CandidateOf(p) == CHOOSE c \in Range(candidates) : c.pid = p

NoPositiveScore == \A c \in Range(candidates) : c.score <= 0

\* C5: selection returns exactly one PID when screen_pid has a descendant
\* in the snapshot and None only when it has none; the PID is a strict
\* descendant of screen_pid, never screen_pid itself.
C5_SelectionTotal ==
    spc = "returned" =>
        /\ target_pid = NoPid <=> Descendants = {}
        /\ Len(target_pid) <= 1
        /\ \A i \in 1..Len(target_pid) :
              target_pid[i] \in Descendants /\ target_pid[i] # screen_pid

\* no descendant scores, one process is outside the subtree, and the
\* fallback returned a descendant
C5_Witness ==
    /\ spc = "returned"
    /\ target_pid # NoPid
    /\ NoPositiveScore
    /\ Descendants # {} /\ Descendants # Procs
    /\ target_pid[1] \in Descendants

\* C6: when no descendant has a positive score, the PID returned is the
\* deepest of all descendants, whatever the scores are.
C6_FallbackIsDeepest ==
    spc = "returned" /\ target_pid # NoPid /\ NoPositiveScore =>
        \A c \in Range(candidates) : c.depth <= CandidateOf(target_pid[1]).depth

\* the command lines of the snapshot that carry the worker marker, those
\* that are blocklisted, and the score of each
WorkerMarked == {c \in Cmds : Contains(MARK_RUN_PY, c)}
Blocklisted  == {c \in Cmds : shell_hits(c) > 0}
ScoreOf      == [c \in Cmds |-> score_cmdline(c)]

HasWorkerMarker(cmd) == cmd \in WorkerMarked

\* W is a child of screen_pid whose command line has the worker marker and
\* S is a child of W whose command line is blocklisted
WorkerWithShell(W, S) ==
    /\ W.ppid = screen_pid /\ HasWorkerMarker(W.cmd)
    /\ S.ppid = W.pid /\ S.pid # W.pid
    /\ S.cmd \in Blocklisted

\* C7 as stated: in the scenario (a worker-marked child and its shell
\* child, which has no worker marker, are the descendants of the
\* session), selection returns the worker-marked child.
C7_ScenarioSelectsWorker ==
    spc = "returned" =>
        \A W, S \in Range(ps_lines) :
            /\ WorkerWithShell(W, S)
            /\ ~HasWorkerMarker(S.cmd)
            /\ Descendants = {W.pid, S.pid}
            => target_pid = SomePid(W.pid)

\* C7 amended: among positive scores depth never overrides a higher
\* score.  When some candidate scores, none scores higher than the
\* selected PID; a shell child is not selected when its worker-marked
\* parent has a positive score higher than the shell's, and in the
\* scenario the parent is selected.
C7_HigherScoreBeatsDepth ==
    spc = "returned" =>
        /\ ~NoPositiveScore =>
              \A c \in Range(candidates) :
                  c.score <= CandidateOf(target_pid[1]).score
        /\ \A W, S \in Range(ps_lines) :
              /\ WorkerWithShell(W, S)
              /\ ScoreOf[W.cmd] > 0
              /\ ScoreOf[W.cmd] > ScoreOf[S.cmd]
              => /\ target_pid # SomePid(S.pid)
                 /\ Descendants = {W.pid, S.pid} => target_pid = SomePid(W.pid)

\* session 50214, child 50301 `python run.py`, its child 50302 `bash`:
\* 50301 is selected
C7_Witness ==
    /\ spc = "returned"
    /\ ps_lines[1] = [pid |-> 50301, ppid |-> 50214, cmd |-> CMD_WORKER]
    /\ ps_lines[2] = [pid |-> 50302, ppid |-> 50301, cmd |-> CMD_BASH]
    /\ Descendants = {50301, 50302}
    /\ target_pid = SomePid(50301)

\* ======================================================== is_file_stable
\* the number of samples at the end of the history that equal the sample
\* before them (the initial sample has none before it)
RECURSIVE TrailingRun(_)
TrailingRun(h) ==
    IF Len(h) >= 2 /\ h[Len(h)] = h[Len(h) - 1]
    THEN 1 + TrailingRun(SubSeq(h, 1, Len(h) - 1))
    ELSE 0

Unchanging(h) == \A i \in 1..Len(h) : h[i] = h[1]

\* C9: True is returned only after check_count consecutive samples that
\* each equal the sample before them, none of them the initial sample;
\* the counter is the length of that run, so a size change sets it to
\* zero and earlier samples do not count.
C9_TrueOnlyAfterStableRun ==
    /\ fpc \in {"loop", "returned"} => same_count = TrailingRun(samples)
    /\ fpc = "returned" /\ stable_result = "True" =>
          /\ TrailingRun(samples) >= check_count
          /\ Len(samples) >= check_count + 1
          /\ \A i \in (Len(samples) - check_count + 1)..Len(samples) :
                i >= 2 /\ samples[i] = samples[i - 1]

\* True after a size change: the run before the change was not counted
C9_Witness ==
    /\ fpc = "returned" /\ stable_result = "True"
    /\ check_count = 2
    /\ samples = <<1024, 1024, 2048, 2048, 2048>>

\* C10 as stated: a file that holds one size for 3 consecutive samples
\* with check_count = 3 has returned True on the 3rd sample.
C10_TrueOnThirdSample ==
    /\ check_count = 3 /\ max_wait >= 3
    /\ samples = <<1024, 1024, 1024>>
    => fpc = "returned" /\ stable_result = "True"

\* C10 amended: for an unchanging file and check_count >= 1, True is
\* returned on sample check_count + 1 and not earlier (the first sample
\* only initialises prev_size); with check_count = 3 that is the 4th.
C10_TrueOnSampleAfterCount ==
    /\ fpc = "returned" /\ stable_result = "True" /\ Unchanging(samples)
       /\ check_count >= 1 => Len(samples) = check_count + 1
    /\ fpc \in {"loop", "returned"} /\ Unchanging(samples)
       /\ check_count >= 1 /\ Len(samples) = check_count + 1 =>
          fpc = "returned" /\ stable_result = "True"
    /\ fpc \in {"loop", "returned"} /\ Unchanging(samples)
       /\ check_count >= 1 /\ Len(samples) <= check_count =>
          stable_result # "True"

\* size 1024 four times with check_count = 3: True on the 4th sample
C10_Witness ==
    /\ fpc = "returned" /\ stable_result = "True"
    /\ check_count = 3
    /\ samples = <<1024, 1024, 1024, 1024>>

\* ===================================================== process_temp_files
\* the directory of the last call, and what was in it when the call began
CallDir == <<temp_output_path[fcall.stream]>>
CallDirExists == path_exists(temp_output_path[fcall.stream])
ListedBefore == entries(fs_before, CallDir)

\* a name that carries the in-progress prefix and ends in .mp4 or .srt
PrefixedMedia(name) ==
    /\ SubSeq(name, 1, 5) = TEMP_PREFIX
    /\ SubSeq(name, Len(name) - 3, Len(name)) \in {EXT_MP4, EXT_SRT}

RenamedOk == {e \in examined : e.renamed = "ok"}

ProcessReturned == fcall.fn = "process_temp_files"

\* the part of C11 about which entries are renamed and what is counted:
\* rename is called for an entry if and only if the entry carries the
\* prefix, has a media or subtitle extension, was found stable and was
\* found not in use; the rename strips the prefix and keeps the directory;
\* the count returned is the number of renames that succeeded; a rename
\* that fails is not counted and the remaining entries are still handled.
RenamesAndCount ==
    ProcessReturned =>
        /\ ~CallDirExists => fret = <<0>> /\ fs = fs_before /\ examined = {}
        /\ CallDirExists =>
              \* every prefixed media entry was handled, and nothing else
              /\ {e.name : e \in examined}
                    = {f.name : f \in {g \in ListedBefore : PrefixedMedia(g.name)}}
              /\ \A e \in examined : e.renamed # "no" <=> e.stable /\ ~e.in_use
              /\ fret = <<Cardinality(RenamedOk)>>
              /\ \A k \in FileIds :
                    rename_count[k] - fcall.counts[k]
                        = Cardinality({e \in RenamedOk : e.id = k})
              \* a renamed file is in the same directory, without the prefix
              /\ \A e \in RenamedOk :
                    \E f \in entries(fs, CallDir) :
                        /\ f.id = e.id
                        /\ \/ f.name = SubSeq(e.name, 6, Len(e.name))
                           \/ \E e2 \in RenamedOk :
                                 /\ e2.name = SubSeq(e.name, 6, Len(e.name))
                                 /\ f.name = SubSeq(e2.name, 6, Len(e2.name))
        /\ \A f \in fs_before : f.dir # CallDir => f \in fs

\* the part of C11 about the files that are not renamed: a prefixed file
\* of the directory that the call did not rename is still there, the same
\* file under the same name
OthersLeftInPlace ==
    ProcessReturned /\ CallDirExists =>
        \A f \in ListedBefore :
            /\ SubSeq(f.name, 1, 5) = TEMP_PREFIX
            /\ f.name \notin {e.name : e \in RenamedOk}
            => f \in fs

\* C11: process_temp_files renames an entry if and only if the entry is
\* prefixed, has a media or subtitle extension, is stable and is not in
\* use; the rename strips the prefix in the same directory; every other
\* prefixed file is left in place under its prefixed name; the count
\* returned is the number of successful renames, a failed rename being
\* skipped without being counted.
C11_RenameIffReady == RenamesAndCount /\ OthersLeftInPlace

\* one call handled two entries: it renamed one and the rename of the
\* other failed, so it returned 1
C11_Witness ==
    /\ ProcessReturned
    /\ fret = <<1>>
    /\ \E e \in examined : e.renamed = "failed"
    /\ \E e \in examined : e.renamed = "ok" /\ e.name = NAME_TEMP_MP4
    /\ \E f \in fs : f.name = NAME_MP4 /\ f.dir = CallDir /\ rename_count[f.id] = 1

\* ========================================================= file relocation
\* a directory under a final root: <<root, year, month, day, hour>>
InFinalStorage(f) == Len(f.dir) = 5

\* no file was renamed more than once by process_temp_files
RenamedAtMostOnce == \A k \in FileIds : rename_count[k] <= 1

\* no file was moved more than once by final_sweep_move
MovedAtMostOnce == \A k \in FileIds : move_count[k] <= 1

\* a file the sweep has moved is in final storage, and a file in final
\* storage is one the sweep has moved: nothing comes back to a temp dir
NeverMovedBack ==
    \A f \in fs : move_count[f.id] >= 1 <=> InFinalStorage(f)

\* C12: over one run of the file stages of stop_all_streams (every stream,
\* every sweep pass), for every set of file names and every assignment of
\* temp directories to streams: no file goes from final storage back to a
\* temp directory, each file is renamed at most once by process_temp_files
\* and moved at most once by final_sweep_move.
C12_RelocationMonotonic ==
    /\ NeverMovedBack
    /\ RenamedAtMostOnce
    /\ MovedAtMostOnce

\* ======================================================== final_sweep_move
SweepReturned == fcall.fn = "final_sweep_move" /\ fret # <<>>

\* an entry the sweep is to relocate: no in-progress prefix, and a name
\* ending in _YYMMDD_HHMMSS.mp4 or _YYMMDD_HHMMSS.srt
Sweepable(name) ==
    /\ SubSeq(name, 1, 5) # TEMP_PREFIX
    /\ Len(name) >= 18
    /\ LET t == SubSeq(name, Len(name) - 17, Len(name)) IN
         /\ t[1] = "_" /\ t[8] = "_"
         /\ \A k \in (2..7) \cup (9..14) : t[k] \in Range(DIGITS)
         /\ SubSeq(t, 15, 18) \in {EXT_MP4, EXT_SRT}

\* final_root/(2000+YY)/MM/DD/HH read off the name: the year is the text
\* "20" followed by the two digits YY
RoutedDir(final_root, name) ==
    LET n == Len(name) IN
    <<final_root,
      <<"2", "0">> \o SubSeq(name, n - 16, n - 15),
      SubSeq(name, n - 14, n - 13),
      SubSeq(name, n - 12, n - 11),
      SubSeq(name, n - 9, n - 8)>>

\* final_root/2025/01/31/23
DIR_2025_01_31_23(final_root) ==
    <<final_root, <<"2","0","2","5">>, <<"0","1">>, <<"3","1">>, <<"2","3">>>>

\* the files the last sweep call relocated
SweptByCall == {f \in ListedBefore : Sweepable(f.name) /\ f.cond # "locked"}

\* C13: a call of final_sweep_move that returns has moved every file of
\* the temp directory that has no in-progress prefix and whose name ends
\* in _YYMMDD_HHMMSS.(mp4|srt) (and that the file system lets it rename)
\* to final_root/(2000+YY)/MM/DD/HH under the same name;
\* cam1_250131_235901.mp4 is at final_root/2025/01/31/23; the files that
\* carry the prefix, and the files whose names do not match, are where
\* they were; the count returned is the number of files moved.
C13_SweepRoutes ==
    SweepReturned /\ CallDirExists =>
        /\ \A f \in SweptByCall :
              /\ [f EXCEPT !.dir = RoutedDir(final_output_path[fcall.stream], f.name)]
                    \in fs
              /\ move_count[f.id] = fcall.counts[f.id] + 1
              /\ f.name = NAME_MP4 =>
                    \E g \in fs :
                        /\ g.id = f.id /\ g.name = NAME_MP4
                        /\ g.dir = DIR_2025_01_31_23(final_output_path[fcall.stream])
        /\ \A f \in ListedBefore \ SweptByCall :
              f \in fs /\ move_count[f.id] = fcall.counts[f.id]
        /\ fret = <<Cardinality(SweptByCall)>>

\* a recording that was prefixed when the shutdown began: the finalizer
\* stripped the prefix, and then the sweep moved it to 2025/01/31/23,
\* while a file that still carries the prefix stayed in the temp directory
C13_Witness ==
    /\ SweepReturned
    /\ \E g \in fs :
          /\ g.name = NAME_MP4
          /\ g.dir = DIR_2025_01_31_23(FINAL_DEFAULT)
          /\ rename_count[g.id] = 1
          /\ move_count[g.id] = 1
          /\ g.id \in {f.id : f \in SweptByCall}
    /\ \E f \in ListedBefore : SubSeq(f.name, 1, 5) = TEMP_PREFIX /\ f \in fs

\* the last sweep call was not the first on its directory: an earlier
\* pass swept every stream, or an earlier stream of this pass has the same
\* temp directory; between sweep calls nothing else touches the files
SweptBefore ==
    \/ fcall.pass >= 2
    \/ \E j \in Streams :
          j < fcall.stream /\ temp_output_path[j] = temp_output_path[fcall.stream]

\* C14: final_sweep_move run again on a directory that an earlier call
\* has swept, nothing else having changed it, moves nothing and returns
\* zero; no file is moved twice.
C14_SweepIdempotent ==
    /\ SweepReturned /\ SweptBefore => fret = <<0>> /\ fs = fs_before
    /\ \A k \in FileIds : move_count[k] <= 1

\* the second pass over a directory from which the first pass moved a
\* file: the call returns zero and the file is where the first pass put it
C14_Witness ==
    /\ SweepReturned
    /\ fcall.pass = 2
    /\ fret = <<0>>
    /\ \E f \in fs : InFinalStorage(f) /\ move_count[f.id] = 1
    /\ \E f \in fs : f.dir = CallDir

\* ================================================== unavailable directories
\* a stream whose temp directory exists and whose final root can be written
Healthy(j) ==
    path_exists(temp_output_path[j]) /\ final_output_path[j] # FINAL_OFFLINE

\* the part of C16 about a temp directory that does not exist: the call of
\* process_temp_files or final_sweep_move for that stream returns 0 and
\* touches nothing, and the loop goes on with the next stream
TempMissingSkipsStream ==
    fcall.fn # "none" /\ ~CallDirExists =>
        /\ fret = <<0>> /\ fs = fs_before
        /\ opc # "raised"

\* the part of C16 about the other streams: when the sweep passes are
\* over, a stream whose directories are available has had its files swept
OtherStreamsSwept ==
    opc = "cleanup" /\ final_sweep_max >= 1 =>
        \A j \in Streams : Healthy(j) =>
            \A f \in entries(fs, <<temp_output_path[j]>>) :
                ~(Sweepable(f.name) /\ f.cond # "locked")

\* C16: a temp directory that is absent, or a final root that cannot be
\* created or written, for one stream, only skips the file stages of that
\* stream: no exception leaves the file stages, and the file stages of the
\* other streams run.
C16_UnavailableSkipsOneStream ==
    /\ exception = NONE
    /\ opc # "raised"
    /\ TempMissingSkipsStream
    /\ OtherStreamsSwept

\* ====================================================== the end of shutdown
\* the auxiliary cleanup at the end of stop_all_streams, in its order
TAIL_STEPS == <<"stop_file_mover_session", "stop_mediamtx", "pkill run_daemon.py">>

\* stop_all_streams has run its auxiliary cleanup and returned a summary
TailReached == opc = "returned" /\ tail_done = TAIL_STEPS /\ summary # <<>>

\* the user interrupted the run
Interrupted == exception = "KeyboardInterrupt"

\* main has exited
Exited == exit_status # <<>>

\* the part of C15 that holds: when the final root of every stream can be
\* written, a run that ended without being interrupted went through the
\* whole end of stop_all_streams
TailReachedWhenWritable ==
    Exited /\ (\A j \in Streams : final_output_path[j] # FINAL_OFFLINE)
        => Interrupted \/ TailReached

\* C15: whatever the outcome of each stage (no sessions, termination
\* failure, unstable files, failing file moves, missing tools), a run of
\* stop_all_streams that the user does not interrupt ends only after it
\* has stopped the file-mover session, stopped the media server, signalled
\* the companion daemon and returned a summary.
C15_ShutdownReachesTail == Exited => Interrupted \/ TailReached

\* ============================================================== exit status
\* stop_all_streams returned a summary that reports n remaining sessions
ReturnedWithRemaining(n) ==
    opc = "returned" /\ summary # <<>> /\ summary[1].remaining_sessions = n

\* C17: main exits with status 0 if and only if stop_all_streams returned
\* a summary whose remaining_sessions is 0; with remaining_sessions > 0,
\* and with an exception or an interrupt that left stop_all_streams, main
\* exits with status 1.
C17_ExitStatus ==
    Exited =>
        /\ exit_status \in {<<0>>, <<1>>}
        /\ exit_status = <<0>> <=> ReturnedWithRemaining(0)
        /\ exception # NONE => opc = "raised" /\ exit_status = <<1>>
        /\ opc = "raised" => exception # NONE /\ summary = <<>>

\* a stream session was still listed at the remaining-session check:
\* stop_all_streams returned a summary with one remaining session and main
\* exited with status 1
C17_Witness ==
    /\ Exited
    /\ ReturnedWithRemaining(1)
    /\ exception = NONE
    /\ exit_status = <<1>>

\* ============================================================== no session
\* no recording file was renamed or moved
NoFileTouched ==
    /\ fcall.fn = "none"
    /\ \A k \in FileIds : rename_count[k] = 0 /\ move_count[k] = 0
    /\ fs = fs_before

ListingFailedAtStart ==
    LET r == screen_list(screen_status, sessions_at_start) IN
    r.error # "none" \/ r.returncode # 0

DiscoverDone == opc \notin {"idle", "discover"}
FindPidsDone == opc \notin {"idle", "discover", "find_pids"}

\* C19: when screen is absent, or screen -list ends with status 1, or
\* with any other non-zero status, get_running_sessions returns the
\* all-zero counts and get_rtsp_stream_pids returns the empty list, and
\* neither raises.
C19_DiscoveryFailsSoft ==
    ListingFailedAtStart =>
        /\ DiscoverDone => sessions = ZERO_COUNTS
        /\ FindPidsDone => rtsp_pids = <<>> /\ termSent = {} /\ killSent = {}
        /\ exception \in {NONE, "KeyboardInterrupt"}

\* screen -list printed two stream sessions and ended with status 2:
\* both functions returned empty results and the run went on to its end
C19_Witness ==
    /\ screen_status = "broken"
    /\ Cardinality({s \in sessions_at_start : s.name # FILE_MOVER_SESSION}) = 2
    /\ \E p \in BatchPids : exists[p]
    /\ opc = "returned"
    /\ sessions = ZERO_COUNTS
    /\ rtsp_pids = <<>>
    /\ exception = NONE

\* ================================================= stop_file_mover_session
MoverCalled == mover_call # <<>>

\* the file-mover session was running, and listed, when the call began
MoverListedBefore(r) == screen_status # "absent" /\ MOVER_SESSION \in r.before

\* C20: stop_file_mover_session sends the quit request by session name
\* only when the session is listed, then lists again: it returns True
\* exactly when the session was not listed to begin with (no quit request
\* sent) or is gone at the second listing, and it returns False, raising
\* nothing, when the session is still there, when the quit command fails
\* and when screen is missing.
C20_MoverStopResult ==
    MoverCalled =>
        LET r == mover_call[1] IN
        /\ r.result \in {"True", "False"}
        /\ r.result = "True" <=>
              /\ screen_status # "absent"
              /\ \/ ~MoverListedBefore(r)
                 \/ r.quit_sent /\ r.quit # "fails" /\ MOVER_SESSION \notin r.sessions
        /\ ~MoverListedBefore(r) => ~r.quit_sent /\ r.sessions = r.before
        /\ MoverListedBefore(r) => r.quit_sent
        /\ r.quit_sent /\ r.quit = "fails" => r.result = "False"
        /\ r.quit_sent /\ MOVER_SESSION \in r.sessions => r.result = "False"
        /\ screen_status = "absent" => r.result = "False"
        /\ "stop_file_mover_session" \in Range(tail_done)
        /\ exception \in {NONE, "KeyboardInterrupt"}

\* the file-mover session was listed, the quit request was sent and the
\* session is gone from the second listing: True
C20_Witness ==
    /\ MoverCalled
    /\ MOVER_SESSION \in mover_call[1].before
    /\ mover_call[1].quit_sent
    /\ mover_call[1].result = "True"
    /\ MOVER_SESSION \notin screen_sessions

\* ======================================================= get_stream_config
\* the file get_stream_config reads: the per-profile file if it exists,
\* otherwise the secondary one
ChosenEnv == IF env_primary.state # "absent" THEN env_primary ELSE env_secondary

\* the lines of the chosen file that begin with key=, by position
MatchingLines(key) ==
    {i \in 1..Len(ChosenEnv.lines) :
        /\ Len(ChosenEnv.lines[i]) > Len(key)
        /\ SubSeq(ChosenEnv.lines[i], 1, Len(key)) = key
        /\ ChosenEnv.lines[i][Len(key) + 1] = "="}

\* s without the white space at its ends
Trimmed(s) ==
    LET inked == {i \in 1..Len(s) : s[i] \notin {" ", TAB}} IN
    IF inked = {} THEN <<>>
    ELSE SubSeq(s, CHOOSE i \in inked : \A j \in inked : i <= j,
                   CHOOSE i \in inked : \A j \in inked : i >= j)

\* the value the configuration must hold for key: that of the first
\* matching line, the default when no line matches or the value is empty
Resolved(key, default) ==
    IF MatchingLines(key) = {} THEN default
    ELSE LET first == CHOOSE i \in MatchingLines(key) :
                          \A j \in MatchingLines(key) : i <= j
             line  == ChosenEnv.lines[first]
             value == Trimmed(SubSeq(line, Len(key) + 2, Len(line)))
         IN IF value = <<>> THEN default ELSE value

\* C21: get_stream_config reads the per-profile environment file if it
\* exists, otherwise the file of the secondary location, otherwise nothing;
\* in the file it reads, the first line that begins with KEY= gives the
\* value of the key, and a key with no such line or with an empty value
\* keeps its default; whatever the files are, the call returns.
C21_ConfigPrecedence ==
    /\ cpc = "returned" =>
          /\ config # <<>>
          /\ config[1].env_file
                = (IF env_primary.state # "absent" THEN "primary" ELSE "secondary")
          /\ config[1].temp_output_path
                = Resolved(KEY_TEMP, DEFAULT_TEMP_OUTPUT_PATH)
          /\ config[1].final_output_path
                = Resolved(KEY_FINAL, DEFAULT_FINAL_OUTPUT_PATH)
          /\ env_primary.state = "absent" /\ env_secondary.state = "absent" =>
                /\ config[1].temp_output_path = DEFAULT_TEMP_OUTPUT_PATH
                /\ config[1].final_output_path = DEFAULT_FINAL_OUTPUT_PATH
    /\ cpc = "call" => ENABLED GetStreamConfig

\* no per-profile file; the secondary file gives TEMP_OUTPUT_PATH twice
\* and FINAL_OUTPUT_PATH not at all: the first value and the default
C21_Witness ==
    /\ cpc = "returned"
    /\ env_primary = ENV_ABSENT
    /\ env_secondary = [state |-> "present", lines |-> <<LINE_TEMP, LINE_TEMP2>>]
    /\ config[1].env_file = "secondary"
    /\ config[1].temp_output_path = SubSeq(LINE_TEMP, 18, Len(LINE_TEMP))
    /\ config[1].final_output_path = DEFAULT_FINAL_OUTPUT_PATH

\* ================================================================ interrupt
\* the part of C22 that holds: the interrupt is caught by main, which
\* exits with status 1
InterruptCaught == Interrupted /\ Exited => exit_status = <<1>>

\* C22: an interrupt that arrives while main runs the shutdown is caught
\* and followed by a cleanup attempt before the process exits (the
\* auxiliary cleanup has run when main exits), and a termination batch
\* that has started is not cut short by it.
C22_InterruptThenCleanup ==
    /\ InterruptCaught
    /\ Interrupted /\ Exited => tail_done = TAIL_STEPS
    /\ kpc # "abandoned"

\* ============================================================ signal order
\* C23: within one call SIGTERM is sent to every PID of the batch before
\* SIGKILL is sent to any PID, and a PID that cannot be signalled (gone,
\* permission denied) does not keep SIGTERM from the PIDs after it.
C23_TermToAllBeforeKill ==
    /\ killSent # {} => termSent = BatchSet
    /\ kpc \in {"grace", "escalate", "verify"} => termSent = BatchSet
    /\ kpc = "done" /\ pids # <<>> => termSent = BatchSet
    /\ kpc = "signal" => killSent = {}

\* a batch of two PIDs: SIGTERM to the first was rejected with permission
\* denied, the second got SIGTERM all the same, was still running after the
\* grace period and was sent SIGKILL
C23_Witness ==
    /\ kpc = "done"
    /\ Len(pids) = 2 /\ pids[1] # pids[2]
    /\ pids[1] \in warned
    /\ termSent = {pids[1], pids[2]}
    /\ pids[2] \in termDelivered
    /\ killSent = {pids[2]}

\* ============================================================== escalation
\* the PIDs of the batch that are alive when the post-grace probe runs
AliveAtEscalation == {p \in BatchSet : exists[p]}

\* the half that holds: SIGKILL goes to PIDs of the batch only, to none
\* that was gone at the post-grace probe, and to every PID whose probe
\* raised nothing
EscalationWithinProbed ==
    [][kpc = "escalate" /\ kpc' = "verify" =>
          /\ killSent' \subseteq AliveAtEscalation
          /\ {p \in AliveAtEscalation : behaviour[p] # "denied"} \subseteq killSent'
      ]_vars

\* C24: escalation is exact: the PIDs that are sent SIGKILL are the PIDs of
\* the batch that are alive after the grace window, no more (none that the
\* post-grace probe observed gone) and no less.
C24_EscalationExact ==
    [][kpc = "escalate" /\ kpc' = "verify" => killSent' = AliveAtEscalation]_vars

\* ============================================================= grace phase
\* the rounds of the grace loop: sec counts them from 1 and never passes
\* grace_period while the loop runs
GraceRoundsBounded ==
    /\ sec \in 1..(grace_period + 1)
    /\ kpc = "grace" => sec \in 1..grace_period

\* a round (a step of the loop: kpc or sec changes) probes every PID of the
\* batch once and keeps those whose probe raised nothing
GraceRoundProbesAll ==
    [][kpc = "grace" /\ <<kpc, sec>>' # <<kpc, sec>>
          => running_pids' = FilterSeq(pids, {p \in BatchSet : os_kill(p, exists) = "ok"})
      ]_vars

\* a round that observes no PID alive is the last one
GraceStopsEarly ==
    [][kpc = "grace" /\ <<kpc, sec>>' # <<kpc, sec>> /\ running_pids' = <<>>
          => kpc' = "escalate" /\ sec' = sec
      ]_vars

\* C25: the grace phase performs at most grace_period rounds, each probing
\* every PID of the batch; it leaves the loop at the first round that
\* observes no PID alive; and the call returns for every batch whatever the
\* processes do.
C25_GraceBoundedAndCallTerminates ==
    /\ []GraceRoundsBounded
    /\ GraceRoundProbesAll
    /\ GraceStopsEarly
    /\ <>(kpc = "done")

\* a grace period of two rounds was left after the first: the process was
\* signalled, exited before the first probe, the round saw none alive, and
\* the call returned
C25_Witness ==
    /\ kpc = "done"
    /\ grace_period = 2
    /\ sec = 1
    /\ running_pids = <<>>
    /\ \E p \in BatchSet : exists0[p] /\ p \in termDelivered /\ ~exists[p]

\* ====================================== selection among positive scores
\* the PIDs within n parent-edges of screen_pid in the snapshot
RECURSIVE Within(_)
Within(n) ==
    IF n = 0 THEN {screen_pid}
    ELSE Within(n - 1) \cup
         {l.pid : l \in {x \in Range(ps_lines) : x.ppid \in Within(n - 1)}}

\* the number of edges of the shortest parent chain from screen_pid to p
EdgeDepth(p) == CHOOSE n \in 1..MaxProcs : p \in Within(n) \ Within(n - 1)

\* the score of the command line that the snapshot gives for PID p
LineScore(p) ==
    score_cmdline((CHOOSE l \in Range(ps_lines) : l.pid = p).cmd)

Scored    == {p \in Descendants : LineScore(p) > 0}
TopScored == {p \in Descendants : \A q \in Descendants : LineScore(q) <= LineScore(p)}

\* C26: when some descendant has a positive score, the PID returned has
\* the maximum score of all descendants and, among those with that score,
\* the greatest depth; no descendant with a score of 0 or less is returned.
C26_MaxScoreThenDeepest ==
    spc = "returned" /\ Scored # {} =>
        /\ target_pid # NoPid
        /\ target_pid[1] \in TopScored
        /\ \A q \in TopScored : EdgeDepth(q) <= EdgeDepth(target_pid[1])
        /\ LineScore(target_pid[1]) > 0

\* two workers with the same top score, 50301 under the session and 50302
\* under 50301, and a shell 50303 deeper still: the deeper worker 50302 is
\* returned, not the shell and not the shallower worker
C26_Witness ==
    /\ spc = "returned"
    /\ ps_lines[1] = [pid |-> 50301, ppid |-> 50214, cmd |-> CMD_WORKER]
    /\ ps_lines[2] = [pid |-> 50302, ppid |-> 50301, cmd |-> CMD_WORKER]
    /\ ps_lines[3] = [pid |-> 50303, ppid |-> 50302, cmd |-> CMD_BASH]
    /\ Scored = {50301, 50302}
    /\ target_pid = SomePid(50302)

\* ============================================================ score_cmdline
\* the words of a command line: the maximal runs without a space
RECURSIVE words_from(_, _)
words_from(s, cur) ==
    IF s = <<>> THEN (IF cur = <<>> THEN {} ELSE {cur})
    ELSE IF Head(s) = " "
         THEN (IF cur = <<>> THEN {} ELSE {cur}) \cup words_from(Tail(s), <<>>)
         ELSE words_from(Tail(s), Append(cur, Head(s)))

WordsOf(cmd) == words_from(cmd, <<>>)

\* the blocklisted tools, as words
BlockedWords == {W_BASH, W_SH, W_SCREEN, W_PSTREE, W_PS}

\* the score as the sum of contributions: the entry-point and interpreter
\* markers anywhere in the line, the runner tool and each blocklisted tool
\* as a whole word
ContributionSum(cmd) ==
      (IF Contains(MARK_RUN_PY, cmd) THEN 100 ELSE 0)
    + (IF Contains(MARK_PYTHON, cmd) THEN 60 ELSE 0)
    + (IF W_UV \in WordsOf(cmd) THEN 50 ELSE 0)
    - 100 * Cardinality(BlockedWords \cap WordsOf(cmd))

\* a word that begins like a blocklisted tool without being one
BeginsLikeBlocked(w) ==
    \E b \in BlockedWords :
        Len(w) > Len(b) /\ SubSeq(w, 1, Len(b)) = b

\* the part that holds: a command line none of whose words merely begins
\* like a blocklisted tool scores the sum of the contributions
ScoreIsSumWithoutLookalikes ==
    scpc = "returned" /\ (\A w \in WordsOf(cmdline) : ~BeginsLikeBlocked(w)) =>
        score = ContributionSum(cmdline)

\* C27: the score of a command line is +100 for the worker entry-point
\* marker, +60 for the interpreter marker, +50 for the runner tool as a
\* space-bounded word, -100 for each blocklisted tool present as a whole
\* word, and nothing else; a line without markers scores 0.
C27_ScoreIsSumOfContributions ==
    scpc = "returned" => score = ContributionSum(cmdline)

\* ====================================== _collect_descendants_with_depth
\* q is listed as a child of p
ChildEdge(p, q) == q \in Range(ppid_to_children[p])

\* the PIDs that a chain of at most n child edges reaches from the set S
RECURSIVE ReachWithin(_, _)
ReachWithin(S, n) ==
    IF n = 0 THEN S
    ELSE ReachWithin(S, n - 1) \cup
         {q \in TreeNodes : \E p \in ReachWithin(S, n - 1) : ChildEdge(p, q)}

NodeCount == Cardinality(TreeNodes)

ReachableFrom(p) == ReachWithin({p}, NodeCount)

\* no PID is its own descendant: no self-parent, no cycle, none to the root
CycleFree ==
    \A p \in TreeNodes :
        \A q \in TreeNodes : ChildEdge(p, q) => p \notin ReachableFrom(q)

\* the number of edges of the shortest chain from the root to p
ChainLength(p) ==
    CHOOSE n \in 1..NodeCount :
        p \in ReachWithin({bfs_root}, n) \ ReachWithin({bfs_root}, n - 1)

ResultPids == {bfs_depth_map[i][1] : i \in 1..Len(bfs_depth_map)}

\* C28: on a cycle-free children map the result holds exactly the PIDs
\* reachable from the root other than the root, each once, and gives each
\* the number of child edges from the root to it (1 for a direct child).
C28_ExactlyReachableWithEdgeDepth ==
    bpc = "returned" /\ CycleFree =>
        /\ ResultPids = ReachableFrom(bfs_root) \ {bfs_root}
        /\ Cardinality(ResultPids) = Len(bfs_depth_map)
        /\ \A i \in 1..Len(bfs_depth_map) :
              bfs_depth_map[i][2] = ChainLength(bfs_depth_map[i][1])

\* the chain root -> 50301 -> 50302: 50301 has depth 1 and 50302 depth 2
C28_Witness ==
    /\ bpc = "returned"
    /\ CycleFree
    /\ ppid_to_children[ScreenPid] = <<50301>>
    /\ ppid_to_children[50301] = <<50302>>
    /\ bfs_depth_map = << <<50301, 1>>, <<50302, 2>> >>

\* no PID is put on the queue twice
EnqueuedOnce ==
    \A i, j \in 1..Len(enqueued) : i # j => enqueued[i] # enqueued[j]

RootNotInResult == bfs_root \notin ResultPids

\* a children map with all the malformations at once: 50301 listed twice
\* under the root, the root listed under 50301 (a cycle back to the root),
\* 50302 its own child, and 50301 a child of its child 50302
Malformed ==
    /\ ppid_to_children[ScreenPid] = <<50301, 50301>>
    /\ ppid_to_children[50301] = <<50302, ScreenPid>>
    /\ ppid_to_children[50302] = <<50302, 50301>>

\* C29: the traversal returns on every children map, cycles, self-parents,
\* a cycle back to the root and repeated children included; no PID is
\* enqueued more than once and the root is never in the result.
C29_TerminatesOnMalformedMaps ==
    /\ []EnqueuedOnce
    /\ []RootNotInResult
    /\ <>(bpc = "returned")

\* the malformed map was traversed and the call returned both PIDs once
C29_Witness ==
    /\ bpc = "returned"
    /\ Malformed
    /\ ~CycleFree
    /\ enqueued = <<ScreenPid, 50301, 50302>>
    /\ bfs_depth_map = << <<50301, 1>>, <<50302, 2>> >>

\* ============================================== is_file_stable, the budget
\* the call never takes more than max_wait size samples
SamplesWithinBudget == Len(samples) <= max_wait

\* the call returns a boolean; True only with the counter at check_count
\* on a file that existed at the start
TrueOnlyWithCounter ==
    fpc = "returned" =>
        /\ stable_result \in {"True", "False"}
        /\ ~file_present => stable_result = "False" /\ samples = <<>>
        /\ stable_result = "True" => same_count >= check_count /\ samples # <<>>

\* leaving the loop without a new sample (the budget is used up, or getsize
\* raised because the file vanished) returns False
NoSampleReturnsFalse ==
    [][fpc = "loop" /\ fpc' = "returned" /\ samples' = samples
          => stable_result' = "False"]_vars

\* C30: is_file_stable returns after at most max_wait size samples, and
\* returns False when the samples run out before the counter reaches
\* check_count, when the file is missing at the start and when it vanishes
\* between two samples.
C30_StableTerminatesWithinBudget ==
    /\ []SamplesWithinBudget
    /\ []TrueOnlyWithCounter
    /\ NoSampleReturnsFalse
    /\ <>(fpc = "returned")

\* three samples allowed and three taken of a file that kept growing: the
\* counter never reached check_count and the call returned False
C30_Witness ==
    /\ fpc = "returned"
    /\ file_present
    /\ max_wait = 3
    /\ samples = <<0, 1024, 2048>>
    /\ same_count < check_count
    /\ stable_result = "False"

\* ================================================ what the file stages leave
SweepCalled == fcall.fn = "final_sweep_move"

\* the files of the call's directory that final_sweep_move is to leave
\* alone: those with the in-progress prefix and those whose name does not
\* end in the date-time pattern
OutsideSweep ==
    {f \in ListedBefore : SubSeq(f.name, 1, 5) = TEMP_PREFIX \/ ~Sweepable(f.name)}

\* the files of the call's directory that process_temp_files is to leave
\* alone: those without the prefix and those with another extension
OutsideFinalize == {f \in ListedBefore : ~PrefixedMedia(f.name)}

\* final_sweep_move leaves them in the same directory under the same name
SweepLeavesOthers == SweepCalled => \A f \in OutsideSweep : f \in fs

\* process_temp_files leaves them in the same directory under the same name
FinalizeLeavesOthers == ProcessReturned => \A f \in OutsideFinalize : f \in fs

\* with no temp directory neither call changes anything
MissingDirChangesNothing ==
    fcall.fn # "none" /\ ~CallDirExists =>
        fs = fs_before /\ fret = <<0>> /\ examined = {}

\* C31: final_sweep_move leaves untouched every file with the in-progress
\* prefix and every file whose name does not match the date-time pattern;
\* process_temp_files leaves untouched every file without the prefix or
\* with another extension; neither changes anything when the temp
\* directory does not exist.
C31_FileStagesFrame ==
    /\ SweepLeavesOthers
    /\ FinalizeLeavesOthers
    /\ MissingDirChangesNothing

\* ============================================================ the sweep loop
\* while the loop runs, the pass number is within 1..final_sweep_max
PassWithinMax ==
    opc \in {"sweep", "pass_end"} => pass_num \in 1..final_sweep_max

\* a pass is over when the last stream has been swept in it
PassSweptEveryStream ==
    opc = "pass_end" =>
        /\ fcall.fn = "final_sweep_move"
        /\ fcall.stream = NumStreams
        /\ fcall.pass = pass_num

\* a further pass starts only after a pass that moved a file, and it is
\* the next pass; after a pass that moved nothing, and after the last
\* pass, the loop is over
NextPassOnlyAfterMoves ==
    [][opc = "pass_end" =>
          /\ opc' = "sweep" => moved_count > 0 /\ pass_num < final_sweep_max
                               /\ pass_num' = pass_num + 1 /\ moved_count' = 0
          /\ moved_count = 0 \/ pass_num = final_sweep_max => opc' \notin {"sweep", "pass_end"}
      ]_vars

\* once the loop is over no pass is started again
NoPassAfterLoop ==
    [][opc \notin {"finalize", "settle", "sweep", "pass_end"} => opc' # "sweep"]_vars

\* C32: the final sweep loop runs at most final_sweep_max passes, each
\* sweeping every stream once, and ends right after the first pass that
\* moved no file: no pass follows a pass without moves, and none follows
\* pass final_sweep_max even when that pass moved files.
C32_SweepLoopBounded ==
    /\ []PassWithinMax
    /\ []PassSweptEveryStream
    /\ NextPassOnlyAfterMoves
    /\ NoPassAfterLoop

\* two passes allowed: the first moved a file, so the second ran; it moved
\* nothing and the loop was over
C32_Witness ==
    /\ opc = "cleanup"
    /\ final_sweep_max = 2
    /\ pass_num = 2
    /\ moved_count = 0
    /\ fcall.fn = "final_sweep_move" /\ fcall.pass = 2
    /\ \E f \in fs : move_count[f.id] = 1

\* ================================================== the order of the stages
\* the stage a position of stop_all_streams belongs to: 1 session
\* discovery, 2 worker termination, 3 finalization, 4 sweep passes,
\* 5 auxiliary cleanup, 6 the function has been left
StageOf(pos) ==
    IF pos = "discover" THEN 1
    ELSE IF pos \in {"find_pids", "terminate"} THEN 2
    ELSE IF pos = "finalize" THEN 3
    ELSE IF pos \in {"settle", "sweep", "pass_end"} THEN 4
    ELSE IF pos \in {"cleanup", "remaining", "stop_mover", "stop_mediamtx",
                     "signal_daemon", "return"} THEN 5
    ELSE 6

\* the run never goes back to an earlier stage
StagesInOrder == [][StageOf(opc') >= StageOf(opc)]_vars

\* a recording file changes its name or its directory only in the
\* finalization or in a sweep pass, after kill_processes_by_pid returned
FilesOnlyAfterTermination ==
    [][fs' # fs \/ rename_count' # rename_count \/ move_count' # move_count
          => opc \in {"finalize", "sweep"} /\ kpc = "done" /\ final_result = "True"
      ]_vars

\* the file-mover session, the media server and the companion daemon are
\* dealt with in the auxiliary cleanup, and no file stage follows
AuxiliaryAfterSweeps ==
    /\ [][tail_done' # tail_done => StageOf(opc) = 5]_vars
    /\ [](tail_done # <<>> => StageOf(opc) >= 5)

\* C33: the stages of stop_all_streams run in the order session
\* discovery, worker termination, finalization of all streams, sweep
\* passes, auxiliary cleanup, and none is entered again; no temp file is
\* renamed or moved before the termination batch has returned; the
\* file-mover session, the media server and the companion daemon are
\* signalled only after the last sweep pass.
C33_StagesInFixedOrder ==
    /\ StagesInOrder
    /\ FilesOnlyAfterTermination
    /\ AuxiliaryAfterSweeps

\* a run through every stage: a worker was stopped, a recording was
\* renamed and then swept to final storage, the auxiliary cleanup ran and
\* the summary came back
C33_Witness ==
    /\ opc = "returned"
    /\ stopped_count >= 1
    /\ \E k \in FileIds : rename_count[k] = 1 /\ move_count[k] = 1
    /\ \E f \in fs : InFinalStorage(f)
    /\ tail_done = TAIL_STEPS
    /\ sessions.streams >= 1

\* =========================================== configuration during one run
\* with the environment files left alone, a call gives the same paths as
\* the call before it
SamePathsWhileFilesUnchanged ==
    [][/\ resolved # <<>>
       /\ Len(resolved') = Len(resolved) + 1
       /\ paths_of(get_stream_config(env_primary, env_secondary)) = resolved[Len(resolved)]
       => resolved'[Len(resolved')] = resolved[Len(resolved)]]_vars

\* C34: within one run of stop_all_streams the temp and final paths used
\* for a stream in the finalization and in every sweep pass are the same,
\* even if the stream's environment file is changed, created or removed
\* while the run is in progress.
C34_PathsResolvedOnce ==
    \A a, b \in 1..Len(resolved) : resolved[a] = resolved[b]

\* ====================================================== streams side by side
\* the PIDs get_rtsp_stream_pids returned are pairwise different
PidsOfSessionsDistinct ==
    \A a, b \in 1..Len(rtsp_pids) : a # b => rtsp_pids[a] # rtsp_pids[b]

\* two streams whose environment files name different temp directories
\* get different temp directories
DistinctWhenConfiguredSo ==
    cpc = "streams_done" =>
        \A i, j \in Streams :
            /\ i # j
            /\ \A f \in {env_primary[i], env_primary[j]} : f.state = "present"
            /\ env_primary[i] # env_primary[j]
            => resolved[i].temp # resolved[j].temp

\* C35: for any two different stream ids get_stream_config yields
\* different temp directories (and get_rtsp_stream_pids yields different
\* PIDs for different sessions), so that the streams work on disjoint
\* directories.
C35_StreamsDisjoint ==
    cpc = "streams_done" =>
        \A i, j \in Streams : i # j => resolved[i].temp # resolved[j].temp

\* ============================================== the gate of the file stages
\* a recording file was renamed or moved in this run
FilesTouched ==
    \/ fcall.fn # "none"
    \/ \E k \in FileIds : rename_count[k] > 0 \/ move_count[k] > 0

\* the file stages run only after a PID was resolved and
\* kill_processes_by_pid returned True for the batch
GatedOnReturnedTrue ==
    FilesTouched =>
        /\ rtsp_pids # <<>>
        /\ pids = rtsp_pids
        /\ kpc = "done" /\ final_result = "True"
        /\ stopped_count = Len(rtsp_pids)

\* with no PID resolved, or with False returned, no file stage runs
NoStageWithoutSuccess ==
    /\ StageOf(opc) >= 3 /\ (rtsp_pids = <<>> \/ final_result # "True") => ~FilesTouched
    /\ opc \in {"finalize", "settle", "sweep", "pass_end"} => final_result = "True"

\* the count of stopped sessions is all or nothing
StoppedAllOrNothing ==
    /\ stopped_count \in {0, Len(rtsp_pids)}
    /\ \A i \in 1..Len(summary) : summary[i].stopped_sessions \in {0, Len(rtsp_pids)}

\* no file is touched in a run in which a PID of the batch survives
NoStageWhenAPidSurvives ==
    FilesTouched => \A p \in Range(rtsp_pids) : ~exists[p]

\* C36: stop_all_streams renames or moves recording files only if at
\* least one worker PID was resolved and kill_processes_by_pid returned
\* True for the whole batch; if a single PID of the batch survives, or no
\* PID is resolved, no temp file of any stream is renamed or moved; the
\* stopped count is 0 or the number of resolved PIDs.
C36_FileStagesGated ==
    /\ GatedOnReturnedTrue
    /\ NoStageWithoutSuccess
    /\ StoppedAllOrNothing
    /\ NoStageWhenAPidSurvives

\* ======================================================= no recording lost
FilesOnDisk == {f.id : f \in fs}

\* a file that is still on disk is there once
OnDiskOnce == \A f, g \in fs : f.id = g.id => f = g

\* C37: after process_temp_files and any number of final_sweep_move
\* passes every file that existed before still exists, exactly once: no
\* step of the file stages makes a file disappear, and no rename replaces
\* a file that is already at the target path.
C37_NoRecordingLost ==
    /\ []OnDiskOnce
    /\ [][FilesOnDisk' = FilesOnDisk]_vars

\* ================================================== run_daemon: the claims
\* C38: the stop script is started at most once in the lifetime of the
\* daemon, whatever the interleaving of SIGTERM and SIGINT, a second signal
\* during the handler's wait included: there is never more than one
\* invocation of the stop script, and never two of them running at once.
StopScriptStartedAtMostOnce == Len(stop_children) <= 1

NeverTwoRunning == Cardinality(RunningChildren) <= 1

C38_StopScriptAtMostOnce == StopScriptStartedAtMostOnce /\ NeverTwoRunning

\* C39: once the handlers are registered, every SIGTERM or SIGINT leads to
\* the daemon's exit with status 0 after one attempt of the stop script,
\* bounded by the 180 seconds of its timeout, whether the script succeeds,
\* fails, is missing or times out; without a signal the daemon never leaves
\* its waiting loop; and when the start script fails the daemon exits with
\* status 1 and does not run the stop script.
SignalLeadsToExitZero == InHandler ~> (daemon_exit = <<0>>)

ExitZeroAfterOneAttempt == daemon_exit = <<0>> => stop_attempts = 1

LeavesLoopOnlyOnSignal ==
    [][dpc = "pause" /\ dpc' # "pause" => signals # <<>>]_vars

StartFailureExitsOne ==
    [][dpc = "start_failed" /\ dpc' = "exited" =>
           daemon_exit' = <<1>> /\ stop_attempts' = 0]_vars

ExitOneWithoutStopScript == daemon_exit = <<1>> => stop_attempts = 0

C39_SignalThenExitZero ==
    /\ SignalLeadsToExitZero
    /\ []ExitZeroAfterOneAttempt
    /\ LeavesLoopOnlyOnSignal
    /\ StartFailureExitsOne
    /\ []ExitOneWithoutStopScript

\* ============================================ is_file_stable: the samples
\* C40: is_file_stable needs strictly more samples than the stable count it
\* is asked for: whatever the sizes, it returns False whenever
\* max_wait <= check_count, and it never returns True before sample number
\* check_count + 1, the first sample only setting the previous size.
FalseWhenWaitWithinCount ==
    fpc = "returned" /\ max_wait <= check_count => stable_result = "False"

TrueNotBeforeCountPlusOne ==
    stable_result = "True" => Len(samples) >= check_count + 1

C40_MoreSamplesThanCount == FalseWhenWaitWithinCount /\ TrueNotBeforeCountPlusOne

\* two equal samples with check_count = max_wait = 2: the budget is spent,
\* the answer is False
C40_Witness ==
    /\ fpc = "returned"
    /\ check_count = 2
    /\ max_wait = 2
    /\ Len(samples) = 2
    /\ samples[1] = samples[2]
    /\ same_count = 1
    /\ stable_result = "False"

====
